---------------------------- MODULE Spec2Model ----------------------------
(***************************************************************************)
(* A model of github.com/stephenafamo/scan: the struct-mapping traversal   *)
(* (setMappings), the descriptor cache (getMapping), the column filter     *)
(* (filterColumns), the Row binding context (wrapRows, ScheduleScanx,      *)
(* scanCurrentRow, createTargets), the mapper combinators (Mod,            *)
(* MergeMapper) and the execution helpers that drive scanOneRow.           *)
(***************************************************************************)
EXTENDS Integers, Sequences, FiniteSets, TLC

VARIABLES
    \* ---- mapperSourceImpl: the configuration of the mapper source ----
    src,            \* [structTagKey, columnSeparator]: set by NewStructMapperSource
    \* ---- the descriptor cache and the goroutines calling getMapping ----
    cache,          \* s.cache: reflect.Type -> mapping (a function on the cached types)
    readers,        \* s.mutex: the goroutines holding the shared lock
    writer,         \* s.mutex: the goroutine holding the exclusive lock, or 0
    gpc,            \* per goroutine: its position inside getMapping
    gtyp,           \* per goroutine: the typ argument of its current call
    gm,             \* per goroutine: the local m of getMapping
    gok,            \* per goroutine: the local ok of getMapping
    gcalls,         \* per goroutine: the number of calls it has started
    returned,       \* per type: every mapping some call has returned (history)
    missed,         \* per goroutine: the types its finished calls computed (history)
    \* ---- one traversal of a destination type ----
    ttyp,           \* the type handed to setMappings
    tpc,            \* "start" before the traversal, "done" after it
    tres,           \* the traversal state setMappings left
    \* ---- one execution of OneFromRows / AllFromRows / Each / a cursor ----
    driver,         \* which execution helper runs
    mapper,         \* the mapper handed to it: [comp, binders]
    vrow,           \* v: the *Row built by wrapRows
    rows,           \* the Rows collaborator: what rows.Err() returns, and the
                    \* number of rows.Next() calls made (history)
    row,            \* the number of rows.Next() calls that returned true
    pc,             \* the position of the execution
    bi,             \* the binder whose before / after function is running
    bj,             \* the number of ScheduleScan calls it has made
    cells,          \* per binder: the destination object it allocated for this row
    alinks,         \* a, t1, t2: the links the before functions returned in this call (locals)
    links,          \* Mod: the links slice shared by every row
    val,            \* scanOneRow: the link returned by before
    tval,           \* t, mr: the value under construction in the after chain
    ret,            \* what scanOneRow returned for the current row
    log,            \* the calls scanOneRow made for the current row (history)
    modlog,         \* the binders' before / after calls for the current row (history)
    results,        \* AllFromRows: the local results
    out,            \* what the helper returned
    \* a struct mapper called with column lists, one call after the other
    mpc,            \* the position of the current call
    mtyp,           \* T of the StructMapper[T] that was called
    mret,           \* the mapping getMapping returned to it
    mcols,          \* the columns it was called with
    mprefix,        \* its structTagPrefix option
    mfiltered,      \* the filtered mapping of the call
    mfirst,         \* per type, what its first getMapping returned, and whether
                    \* it was asked for again (history)
    mrow            \* the row object of the before function: [alloc, sched]

srcVars   == <<src>>
cacheVars == <<cache, readers, writer, gpc, gtyp, gm, gok, gcalls, returned, missed>>
travVars  == <<ttyp, tpc, tres>>
rowVars   == <<driver, mapper, vrow, rows, row, pc, bi, bj, cells, alinks, links, val, tval,
               ret, log, modlog, results, out>>
mapVars   == <<mpc, mtyp, mret, mcols, mprefix, mfiltered, mfirst, mrow>>
vars      == <<srcVars, cacheVars, travVars, rowVars, mapVars>>

-----------------------------------------------------------------------------
(* reflect.Type: the destination types of the model.  A type is named by   *)
(* its Go spelling; "*T" is the pointer type whose Elem() is T.            *)

\* The destination types of TestMappable.  Each has the one field ID (in
\* the tests the two types without a usable MapValues are empty structs;
\* here they have the field too, so that the path taken shows in the result).
MethodTestTypes == {"noMatchingMethod", "methodWithWrongSignature",
                    "mappableVV", "mappableVP", "mappablePV", "mappablePP",
                    "mappableBadBefore", "mappableBadAfter"}

StructTypes == {"User", "Timestamps", "Time", "UserWithTimestamps", "Blog",
                "Tagged", "Node", "Tree", "Ping", "Pong",
                "D1", "D2", "D3", "D4", "ScannableUser", "BlogWithScannableUser",
                "Stamped", "PtrUser2", "PtrTimestamps"} \cup MethodTestTypes

BasicTypes == {"int", "string"}

fld(name, tag, anonymous, exported, typ) ==
    [name |-> name, db |-> tag, custom |-> "", anonymous |-> anonymous,
     exported |-> exported, typ |-> typ]

\* A field that also carries a tag under the key "custom".
fld2(name, tag, custom, typ) ==
    [name |-> name, db |-> tag, custom |-> custom, anonymous |-> FALSE,
     exported |-> TRUE, typ |-> typ]

\* strings.Split(field.Tag.Get(key), ",")[0]: the tags of the model hold no
\* comma, and a key the field does not carry yields "".
TagGet(field, key) ==
    IF key = "db" THEN field.db
    ELSE IF key = "custom" THEN field.custom ELSE ""

\* typ.Field(i) for every struct type, in declaration order.
StructFields(t) ==
    CASE t = "User" ->
            << fld("ID", "", FALSE, TRUE, "int"),
               fld("Name", "", FALSE, TRUE, "string") >>
      [] t = "Timestamps" ->
            << fld("CreatedAt", "", FALSE, TRUE, "Time"),
               fld("UpdatedAt", "", FALSE, TRUE, "Time") >>
      [] t = "Time" ->          \* time.Time: unexported fields only
            << fld("wall", "", FALSE, FALSE, "int"),
               fld("ext", "", FALSE, FALSE, "int") >>
      [] t = "UserWithTimestamps" ->
            << fld("User", "", TRUE, TRUE, "User"),
               fld("Timestamps", "", TRUE, TRUE, "*Timestamps"),
               fld("Blog", "", FALSE, TRUE, "*Blog") >>
      [] t = "Blog" ->
            << fld("ID", "", FALSE, TRUE, "int"),
               fld("User", "", FALSE, TRUE, "UserWithTimestamps") >>
      [] t = "Tagged" ->
            << fld2("ID", "tag_id", "custom_id", "int"),
               fld2("Name", "tag_name", "custom_name", "string"),
               fld("Secret", "-", FALSE, TRUE, "string"),
               fld("hidden", "", FALSE, FALSE, "int") >>
      [] t = "Node" ->
            << fld("ID", "", FALSE, TRUE, "int"),
               fld("Next", "", FALSE, TRUE, "*Node") >>
      [] t = "Tree" ->
            << fld("Left", "", FALSE, TRUE, "*Tree"),
               fld("ID", "", FALSE, TRUE, "int"),
               fld("Right", "", FALSE, TRUE, "*Tree") >>
      [] t = "Ping" ->
            << fld("Pong", "", FALSE, TRUE, "*Pong"),
               fld("ID", "", FALSE, TRUE, "int") >>
      [] t = "Pong" ->
            << fld("Ping", "", FALSE, TRUE, "Ping"),
               fld("Name", "", FALSE, TRUE, "*string") >>
      [] t = "Stamped" ->       \* an id next to an embedded record
            << fld("ID", "", FALSE, TRUE, "int"),
               fld("Timestamps", "", TRUE, TRUE, "Timestamps") >>
      [] t = "PtrTimestamps" ->
            << fld("CreatedAt", "", FALSE, TRUE, "*Time"),
               fld("UpdatedAt", "", FALSE, TRUE, "*Time") >>
      [] t = "PtrUser2" ->
            << fld("ID", "", FALSE, TRUE, "int"),
               fld("Name", "", FALSE, TRUE, "*string"),
               fld("PtrTimestamps", "", TRUE, TRUE, "*PtrTimestamps") >>
      [] t = "D1" -> << fld("A", "", FALSE, TRUE, "D2") >>
      [] t = "D2" -> << fld("B", "", FALSE, TRUE, "D3") >>
      [] t = "D3" -> << fld("C", "", FALSE, TRUE, "D4") >>
      [] t = "D4" ->
            << fld("X", "", FALSE, TRUE, "int"),
               fld("Y", "", FALSE, TRUE, "int") >>
      [] t = "ScannableUser" ->
            << fld("ID", "", FALSE, TRUE, "int") >>
      [] t \in MethodTestTypes ->
            << fld("ID", "", FALSE, TRUE, "int") >>
      [] t = "BlogWithScannableUser" ->
            << fld("ID", "", FALSE, TRUE, "int"),
               fld("User", "", FALSE, TRUE, "ScannableUser") >>

IsPointerType(t) == SubSeq(t, 1, 1) = "*"

\* reflect.Type.Kind()
Kind(t) ==
    IF IsPointerType(t) THEN "ptr"
    ELSE IF t \in StructTypes THEN "struct" ELSE "basic"

\* reflect.Type.Elem() of a pointer type
Elem(t) == SubSeq(t, 2, Len(t))

\* reflect.PtrTo(typ).Implements(scannable) for the default scannableTypes
\* (sql.Scanner): the types of the model that have a Scan method.
ImplementsScannable(t) == t = "ScannableUser"

\* The destination types a struct mapper is built for (struct or *struct).
RootTypes == StructTypes \cup {"*" \o t : t \in StructTypes}

AllTypes == RootTypes \cup BasicTypes \cup {"*string", "*int"}

\* snakeCaseFieldFunc on the identifiers of the model's fields: the two
\* regexp replacements insert "_" before an inner capitalised word, then
\* the string is lower-cased.
snakeCaseFieldFunc(str) ==
    CASE str = "ID" -> "id"
      [] str = "Name" -> "name"
      [] str = "CreatedAt" -> "created_at"
      [] str = "UpdatedAt" -> "updated_at"
      [] str = "User" -> "user"
      [] str = "Timestamps" -> "timestamps"
      [] str = "Blog" -> "blog"
      [] str = "Secret" -> "secret"
      [] str = "Next" -> "next"
      [] str = "Left" -> "left"
      [] str = "Right" -> "right"
      [] str = "Ping" -> "ping"
      [] str = "Pong" -> "pong"
      [] str = "A" -> "a"
      [] str = "B" -> "b"
      [] str = "C" -> "c"
      [] str = "X" -> "x"
      [] str = "Y" -> "y"

\* newDefaultMapperSourceImpl: the defaults of a mapper source.
maxDepth == 3
defaultSource == [structTagKey |-> "db", columnSeparator |-> "."]

\* NewStructMapperSource(opts...): the sources the options WithStructTagKey
\* and WithColumnSeparator of the tests build.
Sources == {[structTagKey |-> k, columnSeparator |-> c] :
                k \in {"db", "custom"}, c \in {".", ","}}

-----------------------------------------------------------------------------
(* Go slices.  A slice is a header (arr, len, cap) over a backing array;   *)
(* append writes in place while len < cap and otherwise copies into a new  *)
(* array.  Two heaps are threaded through the traversal: ints holds the    *)
(* []int arrays (field index paths), sls the [][]int arrays (whose         *)
(* elements are []int headers).                                            *)

NilSlice == [arr |-> 0, len |-> 0, cap |-> 0]

\* runtime.growslice for one appended element of a small slice: a nil slice
\* grows to capacity 1, otherwise the capacity doubles (8- and 24-byte
\* elements: 1, 2, 4, 8 all land on allocator size classes).
GrowCap(oldCap) == IF oldCap = 0 THEN 1 ELSE oldCap + oldCap

\* append(s, x) on a heap of arrays; pad fills the unused capacity.
appendTo(heap, s, x, pad) ==
    IF s.len < s.cap
    THEN [heap |-> [heap EXCEPT ![s.arr][s.len + 1] = x],
          s    |-> [s EXCEPT !.len = s.len + 1]]
    ELSE LET ncap == GrowCap(s.cap)
             old  == IF s.arr = 0 THEN <<>> ELSE SubSeq(heap[s.arr], 1, s.len)
             new  == [k \in 1..ncap |->
                        IF k <= s.len THEN old[k]
                        ELSE IF k = s.len + 1 THEN x ELSE pad]
         IN [heap |-> Append(heap, new),
             s    |-> [arr |-> Len(heap) + 1, len |-> s.len + 1, cap |-> ncap]]

\* The elements a slice header shows.
sliceInts(ints, s) == IF s.arr = 0 THEN <<>> ELSE SubSeq(ints[s.arr], 1, s.len)

sliceOfSlices(ints, sls, s) ==
    IF s.arr = 0 THEN <<>>
    ELSE [k \in 1..s.len |-> sliceInts(ints, sls[s.arr][k])]

-----------------------------------------------------------------------------
(* mapperSourceImpl.setMappings: the depth-first traversal of a type.      *)
(* The traversal state st carries the mapping *m under construction (its   *)
(* position and init fields are slice headers), the two slice heaps, and   *)
(* a history of the calls: entered holds, for every call that passed the   *)
(* recursion guard, the types of the call chain from the root down to it;  *)
(* abandoned holds the chains of the calls the guard turned back.          *)

EmptyTraversal ==
    [m |-> <<>>, ints |-> <<>>, sls |-> <<>>, entered |-> {}, abandoned |-> {}]

\* visited: reflect.Type -> count; a type not in the map counts 0.
NoVisits == [t \in AllTypes |-> 0]

\* visited.copy(): a new map with the same entries.
copy(v) == [t \in DOMAIN v |-> v[t]]

\* The recursion guard of setMappings: the branch is abandoned.
guardBadOffByOne(count) == count > maxDepth + 1
guard(count) == count > maxDepth

\* a join with the default separator whatever the source says
JoinDot(key, name, sep) == key \o (IF sep = "" THEN "" ELSE ".") \o name

\* strings.Join([]string{key, name}, sep)
Join(key, name, sep) == key \o sep \o name

mapinfo(name, position, init, isPointer) ==
    [name |-> name, position |-> position, init |-> init, isPointer |-> isPointer]

RECURSIVE setMappings(_, _, _, _, _, _, _, _)
RECURSIVE setMappingsFields(_, _, _, _, _, _, _, _, _, _)

\* The loop over typ's fields, from field i (1-based here; the Go index
\* i-1 is what is appended to position).  Returns the traversal state, the
\* loop's inits variable and hasExported.
setMappingsFields(s, typ, i, prefix, v, st, inits, position, hasExported, chain) ==
    IF i > Len(StructFields(typ))
    THEN [st |-> st, inits |-> inits, hasExported |-> hasExported]
    ELSE
      LET field == StructFields(typ)[i]
          tag   == TagGet(field, s.structTagKey)
      IN
      IF ~field.exported \/ tag = "-"
      THEN setMappingsFields(s, typ, i + 1, prefix, v, st, inits, position,
                             hasExported, chain)
      ELSE
        LET sep  == IF prefix # "" THEN s.columnSeparator ELSE ""
            name == IF tag = "" THEN snakeCaseFieldFunc(field.name) ELSE tag
            key  == IF field.anonymous THEN prefix ELSE Join(prefix, name, sep)
            \* currentIndex := append(position, i)
            a1   == appendTo(st.ints, position, i - 1, 0)
            currentIndex == a1.s
            isPointer == Kind(field.typ) = "ptr"
            fieldType == IF isPointer THEN Elem(field.typ) ELSE field.typ
            \* inits = append(inits, currentIndex)
            a2   == IF isPointer
                    THEN appendTo(st.sls, inits, currentIndex, NilSlice)
                    ELSE [heap |-> st.sls, s |-> inits]
            st2  == [st EXCEPT !.ints = a1.heap, !.sls = a2.heap]
            st3  == IF Kind(fieldType) = "struct"
                    THEN setMappings(s, field.typ, key, copy(v), st2, a2.s,
                                     currentIndex, chain)
                    ELSE [st2 EXCEPT !.m = Append(@, mapinfo(key, currentIndex,
                                                            a2.s, isPointer))]
        IN
        \* (the test makes TLC finish this field before it starts the next)
        IF Len(st3.m) >= 0
        THEN setMappingsFields(s, typ, i + 1, prefix, v, st3, a2.s, position,
                               TRUE, chain)
        ELSE [st |-> st3, inits |-> a2.s, hasExported |-> TRUE]

setMappings(s, typ, prefix, v, st, inits, position, chain) ==
    LET count == v[typ]
        here  == Append(chain, typ)
    IN
    IF guard(count)
    THEN [st EXCEPT !.abandoned = @ \cup {here}]
    ELSE
      LET v2        == [v EXCEPT ![typ] = count + 1]
          isPointer == Kind(typ) = "ptr"
          styp      == IF isPointer THEN Elem(typ) ELSE typ
          st1       == [st EXCEPT !.entered = @ \cup {here}]
      IN
      IF ImplementsScannable(styp)
      THEN [st1 EXCEPT !.m = Append(@, mapinfo(prefix, position, inits, isPointer))]
      ELSE
        LET r == setMappingsFields(s, styp, 1, prefix, v2, st1, inits, position,
                                   FALSE, here)
        IN IF ~r.hasExported
           THEN [r.st EXCEPT !.m = Append(@, mapinfo(prefix, position, r.inits, isPointer))]
           ELSE r.st

\* The mapping as its readers see it once the traversal is over: every
\* slice header replaced by the elements it shows.
mappingContent(st) ==
    [k \in 1..Len(st.m) |->
        [name      |-> st.m[k].name,
         position  |-> sliceInts(st.ints, st.m[k].position),
         init      |-> sliceOfSlices(st.ints, st.sls, st.m[k].init),
         isPointer |-> st.m[k].isPointer]]

\* s.setMappings(typ, "", make(visited), &m, nil) as getMapping calls it.
traverse(s, typ) ==
    setMappings(s, typ, "", NoVisits, EmptyTraversal, NilSlice, NilSlice, <<>>)

\* The traversals of the model, computed once: setMappings reads nothing but
\* its arguments and the configuration of s.
traversal == [s \in Sources |-> [typ \in RootTypes |-> traverse(s, typ)]]

-----------------------------------------------------------------------------
(* mapperSourceImpl.getMapping, called by concurrent goroutines on one     *)
(* mapper source.  s.mutex is a sync.RWMutex: RLock waits while a writer   *)
(* holds or has requested the lock; Lock first excludes other writers and  *)
(* new readers, then waits until the readers that were inside have left.   *)

NumGoroutines == 2

Goroutines == 1..NumGoroutines

\* The types the goroutines ask for.
CacheTypes == {"Node", "*Node"}

\* The key under which getMapping stores and looks up a type.
cacheKeyBadElem(typ) == IF Kind(typ) = "ptr" THEN Elem(typ) ELSE typ
cacheKey(typ) == typ

InitSource == src = defaultSource

InitCacheIdle ==
    /\ cache = [t \in {} |-> <<>>]
    /\ readers = {}
    /\ writer = 0
    /\ gpc = [g \in Goroutines |-> "idle"]
    /\ gtyp = [g \in Goroutines |-> "User"]
    /\ gm = [g \in Goroutines |-> <<>>]
    /\ gok = [g \in Goroutines |-> FALSE]
    /\ gcalls = [g \in Goroutines |-> 0]
    /\ returned = [t \in CacheTypes |-> {}]
    /\ missed = [g \in Goroutines |-> {}]

InitTravIdle ==
    /\ ttyp = "User"
    /\ tpc = "off"
    /\ tres = EmptyTraversal

InitRowIdle ==
    /\ driver = "none"
    /\ mapper = [comp |-> "none", binders |-> <<>>]
    /\ vrow = [columns |-> <<>>, scanDestinations |-> <<>>,
               unknownDestinations |-> <<>>, allowUnknown |-> FALSE]
    /\ rows = [err |-> [kind |-> "nil", meta |-> <<>>, cause |-> ""], nexts |-> 0]
    /\ row = 0
    /\ pc = "off"
    /\ bi = 0
    /\ bj = 0
    /\ cells = <<>>
    /\ alinks = <<>>
    /\ links = <<>>
    /\ val = <<>>
    /\ tval = <<>>
    /\ ret = <<>>
    /\ log = <<>>
    /\ modlog = <<>>
    /\ results = <<>>
    /\ out = <<>>

InitMapIdle ==
    /\ mpc = "off"
    /\ mtyp = "User"
    /\ mret = <<>>
    /\ mcols = <<>>
    /\ mprefix = ""
    /\ mfiltered = <<>>
    /\ mfirst = [t \in {} |-> <<>>]
    /\ mrow = [alloc |-> {}, sched |-> <<>>]

InitCache == InitSource /\ InitCacheIdle /\ InitTravIdle /\ InitRowIdle /\ InitMapIdle

\* A goroutine calls s.getMapping(typ); each goroutine makes one call.
Call(g, typ) ==
    /\ gpc[g] = "idle"
    /\ gcalls[g] = 0
    /\ gcalls' = [gcalls EXCEPT ![g] = @ + 1]
    /\ gtyp' = [gtyp EXCEPT ![g] = typ]
    /\ gm' = [gm EXCEPT ![g] = <<>>]
    /\ gok' = [gok EXCEPT ![g] = FALSE]
    /\ gpc' = [gpc EXCEPT ![g] = "rlock"]
    /\ UNCHANGED <<cache, readers, writer, returned, missed, srcVars, travVars, rowVars, mapVars>>

\* s.mutex.RLock(), skipped: the read is made without the shared lock.
RLockSkipped(g) ==
    /\ gpc[g] = "rlock"
    /\ readers' = readers \cup {g}
    /\ gpc' = [gpc EXCEPT ![g] = "read"]
    /\ UNCHANGED <<cache, writer, gtyp, gm, gok, gcalls, returned, missed,
                   srcVars, travVars, rowVars, mapVars>>

\* s.mutex.RLock()
RLock(g) ==
    /\ gpc[g] = "rlock"
    /\ writer = 0
    /\ readers' = readers \cup {g}
    /\ gpc' = [gpc EXCEPT ![g] = "read"]
    /\ UNCHANGED <<cache, writer, gtyp, gm, gok, gcalls, returned, missed,
                   srcVars, travVars, rowVars, mapVars>>

\* m, ok := s.cache[typ]
ReadCache(g) ==
    /\ gpc[g] = "read"
    /\ LET k == cacheKey(gtyp[g])
       IN /\ gok' = [gok EXCEPT ![g] = k \in DOMAIN cache]
          /\ gm' = [gm EXCEPT ![g] = IF k \in DOMAIN cache THEN cache[k] ELSE <<>>]
    /\ gpc' = [gpc EXCEPT ![g] = "runlock"]
    /\ UNCHANGED <<cache, readers, writer, gtyp, gcalls, returned, missed,
                   srcVars, travVars, rowVars, mapVars>>

\* s.mutex.RUnlock(); if ok { return m, nil }
RUnlock(g) ==
    /\ gpc[g] = "runlock"
    /\ readers' = readers \ {g}
    /\ IF gok[g]
       THEN /\ returned' = [returned EXCEPT ![gtyp[g]] = @ \cup {gm[g]}]
            /\ gpc' = [gpc EXCEPT ![g] = "idle"]
       ELSE /\ returned' = returned
            /\ gpc' = [gpc EXCEPT ![g] = "compute"]
    /\ UNCHANGED <<cache, writer, gtyp, gm, gok, gcalls, missed, srcVars, travVars, rowVars, mapVars>>

\* s.setMappings(typ, "", make(visited), &m, nil): appends to the local m.
Compute(g) ==
    /\ gpc[g] = "compute"
    /\ gm' = [gm EXCEPT ![g] = @ \o mappingContent(traversal[src][gtyp[g]])]
    /\ gpc' = [gpc EXCEPT ![g] = "lock"]
    /\ UNCHANGED <<cache, readers, writer, gtyp, gok, gcalls, returned, missed,
                   srcVars, travVars, rowVars, mapVars>>

\* s.mutex.Lock(): the goroutine becomes the writer; readers that are
\* inside stay inside, no new reader enters.
Lock(g) ==
    /\ gpc[g] = "lock"
    /\ writer = 0
    /\ writer' = g
    /\ gpc' = [gpc EXCEPT ![g] = "lockwait"]
    /\ UNCHANGED <<cache, readers, gtyp, gm, gok, gcalls, returned, missed,
                   srcVars, travVars, rowVars, mapVars>>

\* s.mutex.Lock() returns once the last reader has left.
LockAcquired(g) ==
    /\ gpc[g] = "lockwait"
    /\ readers = {}
    /\ gpc' = [gpc EXCEPT ![g] = "write"]
    /\ UNCHANGED <<cache, readers, writer, gtyp, gm, gok, gcalls, returned, missed,
                   srcVars, travVars, rowVars, mapVars>>

\* s.cache[typ] = m
WriteCache(g) ==
    /\ gpc[g] = "write"
    /\ LET k == cacheKey(gtyp[g])
       IN cache' = [t \in DOMAIN cache \cup {k} |-> IF t = k THEN gm[g] ELSE cache[t]]
    /\ gpc' = [gpc EXCEPT ![g] = "unlock"]
    /\ UNCHANGED <<readers, writer, gtyp, gm, gok, gcalls, returned, missed,
                   srcVars, travVars, rowVars, mapVars>>

\* s.mutex.Unlock(); return m, nil
Unlock(g) ==
    /\ gpc[g] = "unlock"
    /\ writer' = 0
    /\ returned' = [returned EXCEPT ![gtyp[g]] = @ \cup {gm[g]}]
    /\ missed' = [missed EXCEPT ![g] = @ \cup {gtyp[g]}]
    /\ gpc' = [gpc EXCEPT ![g] = "idle"]
    /\ UNCHANGED <<cache, readers, gtyp, gm, gok, gcalls, srcVars, travVars, rowVars, mapVars>>

\* The steps of a call once it is made.
getMapping(g) ==
    \/ RLock(g)
    \/ ReadCache(g)
    \/ RUnlock(g)
    \/ Compute(g)
    \/ Lock(g)
    \/ LockAcquired(g)
    \/ WriteCache(g)
    \/ Unlock(g)

NextCache ==
    \E g \in Goroutines :
        \/ \E typ \in CacheTypes : Call(g, typ)
        \/ getMapping(g)

\* The Go scheduler runs every goroutine that can take a step.
SpecCache ==
    InitCache /\ [][NextCache]_vars /\ \A g \in Goroutines : WF_vars(getMapping(g))

-----------------------------------------------------------------------------
(* One traversal: getMapping's call of setMappings on a destination type,  *)
(* for every type of the model and every configuration of the source.      *)

InitTraverse ==
    /\ src \in Sources
    /\ InitCacheIdle
    /\ InitRowIdle
    /\ InitMapIdle
    /\ ttyp \in RootTypes
    /\ tpc = "start"
    /\ tres = EmptyTraversal

Traverse ==
    /\ tpc = "start"
    /\ tres' = traversal[src][ttyp]
    /\ tpc' = "done"
    /\ UNCHANGED <<ttyp, srcVars, cacheVars, rowVars, mapVars>>

NextTraverse == Traverse

SpecTraverse == InitTraverse /\ [][NextTraverse]_vars

-----------------------------------------------------------------------------
(* Properties of the descriptor cache and of the traversal.                *)

\* C5: whatever the interleaving of concurrent getMapping calls, all calls
\* for one type return leaf lists equal by content, and a cache entry, once
\* written, is only ever overwritten with equal content.
C5_EqualDescriptors ==
    [][ /\ \A t \in CacheTypes : Cardinality(returned'[t]) <= 1
        /\ \A t \in DOMAIN cache : t \in DOMAIN cache' /\ cache'[t] = cache[t]
      ]_vars

\* Two goroutines both missed the cache for one type, both computed its
\* descriptor and both have stored and returned it.
C5_Witness ==
    \E g, h \in Goroutines :
        /\ g # h
        /\ \E t \in CacheTypes :
              /\ t \in missed[g] \cap missed[h]
              /\ t \in DOMAIN cache
              /\ returned[t] # {}

\* The cache map is read under the shared lock only and written under the
\* exclusive lock only; no read overlaps a write and no two writes overlap.
MapAccessExclusive ==
    \A g \in Goroutines :
        /\ gpc[g] = "read" => g \in readers
        /\ gpc[g] = "write" => writer = g /\ readers = {}
        /\ \A h \in Goroutines \ {g} :
              gpc[g] = "write" => gpc[h] \notin {"read", "write"}

\* A goroutine computing a descriptor holds the lock in neither mode, so
\* nobody waiting for the lock waits for a computation.
ComputeHoldsNoLock ==
    \A g \in Goroutines :
        gpc[g] \in {"compute", "lock"} => g \notin readers /\ writer # g

\* C6: getMapping computes outside the lock, reads the map under the shared
\* lock and writes it under the exclusive lock, no reader overlaps a
\* writer, and every call eventually returns.
C6_LockDiscipline ==
    /\ [](MapAccessExclusive /\ ComputeHoldsNoLock)
    /\ \A g \in Goroutines : (gpc[g] # "idle") ~> (gpc[g] = "idle")

\* One goroutine computes a descriptor while another one is inside the
\* exclusive section writing the map.
C6_Witness ==
    \E g, h \in Goroutines :
        /\ gpc[g] = "compute"
        /\ gpc[h] = "write"
        /\ gtyp[g] = gtyp[h]

\* Number of times type t occurs in the call chain c.
Occurrences(c, t) == Cardinality({k \in 1..Len(c) : c[k] = t})

\* C7: the traversal of every destination type terminates; no type is
\* entered more than maxDepth+1 times along one path from the root, and a
\* call is turned back exactly when its type was already entered maxDepth+1
\* times on the path.
C7_TraversalBounded ==
    /\ tpc = "start" => ENABLED Traverse
    /\ tpc = "done" =>
          /\ \A c \in tres.entered :
                \A k \in 1..Len(c) : Occurrences(c, c[k]) <= maxDepth + 1
          /\ \A c \in tres.abandoned :
                Occurrences(c, c[Len(c)]) = maxDepth + 2
          /\ Len(tres.m) > 0

\* The traversal of the self-referential Node has finished: a branch was
\* abandoned after *Node had been entered maxDepth+1 times on its path.
C7_Witness ==
    /\ tpc = "done"
    /\ ttyp = "Node"
    /\ tres.abandoned # {}
    /\ \E c \in tres.entered : Occurrences(c, "*Node") = maxDepth + 1


-----------------------------------------------------------------------------
(* Errors.  An error value is [kind, meta, cause]; kind "nil" is the nil   *)
(* error, "MappingError" a *MappingError with its metadata, "error" any    *)
(* other error.  cause is the text of the wrapped error.                   *)

NoError == [kind |-> "nil", meta |-> <<>>, cause |-> ""]
PlainError(text) == [kind |-> "error", meta |-> <<>>, cause |-> text]

createError(err, meta) ==
    IF err.kind = "MappingError" /\ Len(meta) = 0
    THEN err
    ELSE [kind |-> "MappingError", meta |-> meta, cause |-> err.cause]

ErrNoRows == PlainError("sql: no rows in result set")
ErrRows   == PlainError("rows.Err")
ErrScan   == PlainError("rows.Scan")
ErrBefore(b) == PlainError("before failed")
ErrAfter(b)  == PlainError("after failed")

-----------------------------------------------------------------------------
(* The Row.  A destination is a reflect.Value: zeroValue for an unset      *)
(* slot, else the address of cell pos of the object that binder b          *)
(* allocated while binding row r.                                          *)

zeroValue == [kind |-> "zero", r |-> 0, b |-> 0, pos |-> <<>>]
Addr(r, b, pos) == [kind |-> "addr", r |-> r, b |-> b, pos |-> pos]
\* new(interface{}): a fresh pointer nobody else holds, made for column i
Placeholder(i) == [kind |-> "discard", r |-> 0, b |-> 0, pos |-> <<i>>]

wrapRows(cols, allowUnknown) ==
    [columns             |-> cols,
     scanDestinations    |-> [i \in 1..Len(cols) |-> zeroValue],
     unknownDestinations |-> <<>>,
     allowUnknown        |-> allowUnknown]

\* the index of the first column named colName, 0 when there is none
firstColumn(columns, colName) ==
    IF \E i \in 1..Len(columns) : columns[i] = colName
    THEN CHOOSE i \in 1..Len(columns) :
            /\ columns[i] = colName
            /\ \A k \in 1..(i - 1) : columns[k] # colName
    ELSE 0

ScheduleScanxKeepFirst(r, colName, dest) ==
    LET i == firstColumn(r.columns, colName)
    IN IF i # 0
       THEN IF r.scanDestinations[i] = zeroValue
            THEN [r EXCEPT !.scanDestinations[i] = dest]
            ELSE r
       ELSE [r EXCEPT !.unknownDestinations = Append(@, colName)]

ScheduleScanx(r, colName, dest) ==
    LET i == firstColumn(r.columns, colName)
    IN IF i # 0
       THEN [r EXCEPT !.scanDestinations[i] = dest]
       ELSE [r EXCEPT !.unknownDestinations = Append(@, colName)]

\* scanCurrentRow after a successful Scan: a fresh slice of unset slots
resetDestinationsKept(r) == r

resetDestinations(r) ==
    [r EXCEPT !.scanDestinations = [i \in 1..Len(r.columns) |-> zeroValue]]

\* the first column whose slot is unset, 0 when every slot is set
firstUnset(r) ==
    IF \E i \in 1..Len(r.columns) : r.scanDestinations[i] = zeroValue
    THEN CHOOSE i \in 1..Len(r.columns) :
            /\ r.scanDestinations[i] = zeroValue
            /\ \A k \in 1..(i - 1) : r.scanDestinations[k] # zeroValue
    ELSE 0

createTargetsIgnoreFlag(r) ==
    [targets |-> [i \in 1..Len(r.columns) |->
                    IF r.scanDestinations[i] # zeroValue
                    THEN r.scanDestinations[i] ELSE Placeholder(i)],
     err |-> NoError]

createTargets(r) ==
    LET i == firstUnset(r)
    IN IF i # 0 /\ ~r.allowUnknown
       THEN [targets |-> <<>>,
             err |-> createError(
                        PlainError("No destination for column " \o r.columns[i]),
                        <<"no destination", r.columns[i]>>)]
       ELSE [targets |-> [k \in 1..Len(r.columns) |->
                            IF r.scanDestinations[k] # zeroValue
                            THEN r.scanDestinations[k] ELSE Placeholder(k)],
             err |-> NoError]

-----------------------------------------------------------------------------
(* filterColumns: for every query column, in query order, the first        *)
(* descriptor entry whose name is the column (less the prefix).            *)

HasPrefix(name, prefix) ==
    Len(name) >= Len(prefix) /\ SubSeq(name, 1, Len(prefix)) = prefix

firstInfo(m, key) ==
    IF \E k \in 1..Len(m) : m[k].name = key
    THEN CHOOSE k \in 1..Len(m) :
            /\ m[k].name = key
            /\ \A j \in 1..(k - 1) : m[j].name # key
    ELSE 0

\* a filter that hands on the leaf under its own name
RECURSIVE filterColumnsFromStripped(_, _, _, _)
filterColumnsFromStripped(c, m, prefix, i) ==
    IF i > Len(c) THEN <<>>
    ELSE LET name == c[i]
             skip == prefix # "" /\ ~HasPrefix(name, prefix)
             key  == IF prefix # "" /\ ~skip
                     THEN SubSeq(name, Len(prefix) + 1, Len(name))
                     ELSE name
             k    == IF skip THEN 0 ELSE firstInfo(m, key)
         IN (IF k = 0 THEN <<>> ELSE <<m[k]>>)
                \o filterColumnsFromStripped(c, m, prefix, i + 1)

RECURSIVE filterColumnsFrom(_, _, _, _)
filterColumnsFrom(c, m, prefix, i) ==
    IF i > Len(c) THEN <<>>
    ELSE LET name == c[i]
             skip == prefix # "" /\ ~HasPrefix(name, prefix)
             key  == IF prefix # "" /\ ~skip
                     THEN SubSeq(name, Len(prefix) + 1, Len(name))
                     ELSE name
             k    == IF skip THEN 0 ELSE firstInfo(m, key)
         IN (IF k = 0 THEN <<>> ELSE <<[m[k] EXCEPT !.name = name]>>)
                \o filterColumnsFrom(c, m, prefix, i + 1)

filterColumns(c, m, prefix) == filterColumnsFrom(c, m, prefix, 1)

\* a loop over the mapping by index, renaming the leaf where it is stored
assignNameInPlace(m, k, name) == [m EXCEPT ![k].name = name]

\* info.name = name, as far as the mapping m is concerned: info is the
\* loop variable of "for _, info := range m", a copy of m[k]
assignName(m, k, name) == m

\* the mapping handed to filterColumns as the call leaves it
RECURSIVE filterColumnsLeaves(_, _, _, _)
filterColumnsLeaves(c, m, prefix, i) ==
    IF i > Len(c) THEN m
    ELSE LET name == c[i]
             skip == prefix # "" /\ ~HasPrefix(name, prefix)
             key  == IF prefix # "" /\ ~skip
                     THEN SubSeq(name, Len(prefix) + 1, Len(name))
                     ELSE name
             k    == IF skip THEN 0 ELSE firstInfo(m, key)
         IN filterColumnsLeaves(c, IF k = 0 THEN m ELSE assignName(m, k, name),
                                prefix, i + 1)

-----------------------------------------------------------------------------
(* Mappers.  Calling a Mapper with the query columns yields a before and   *)
(* an after function; the model keeps, per pair ("binder"), what its       *)
(* before function does: the object it allocates (keys: the cells of the   *)
(* object), the ScheduleScan calls it makes in order (sched), and the      *)
(* error it returns when it is an ErrorMapper.                             *)

binder(kind, typ, keys, sched, err) ==
    [kind |-> kind, typ |-> typ, keys |-> keys, sched |-> sched, err |-> err]

\* the struct type behind a destination type T or *T
structOf(typ) == IF IsPointerType(typ) THEN Elem(typ) ELSE typ

hasExportedField(t) ==
    \E i \in 1..Len(StructFields(t)) : StructFields(t)[i].exported

\* reflect.New(typ).Elem(): the cells of a fresh struct value, named by the
\* index path FieldByIndex takes to them.  A nested struct value is part
\* of the object; a pointer field and a struct without exported fields
\* (time.Time) are one cell.
RECURSIVE fieldPaths(_, _)
fieldPaths(t, path) ==
    UNION {LET f == StructFields(t)[i]
               p == Append(path, i - 1)
           IN IF Kind(f.typ) = "struct" /\ hasExportedField(f.typ)
              THEN fieldPaths(f.typ, p)
              ELSE {p} : i \in 1..Len(StructFields(t))}

\* regular[T].regular over the filtered mapping: one cell per leaf of the
\* struct, one ScheduleScanx per filtered entry.
regular(typ, m, filtered) ==
    binder("struct", typ, fieldPaths(structOf(typ), <<>>),
           [i \in 1..Len(filtered) |->
                [name |-> filtered[i].name, pos |-> filtered[i].position]],
           NoError)

\* regular[T].allOptions over the filtered mapping: the object returned by
\* before is a slice of scratch values, one reflect.New(ft) per filtered
\* entry, scheduled under the entry's name; field is where after puts it.
allOptions(typ, m, filtered, validator) ==
    [kind |-> "options", typ |-> typ,
     keys |-> {<<i - 1>> : i \in 1..Len(filtered)},
     sched |-> [i \in 1..Len(filtered) |->
                    [name |-> filtered[i].name, pos |-> <<i - 1>>]],
     err |-> NoError,
     fields |-> [i \in 1..Len(filtered) |-> filtered[i].position],
     isPointer |-> [i \in 1..Len(filtered) |-> filtered[i].isPointer],
     validator |-> validator]

\* mappingOptions: the zero options, and WithRowValidator(validator)
noOptions == [structTagPrefix |-> "", rowValidator |-> "nil"]

WithRowValidator(validator) == [noOptions EXCEPT !.rowValidator = validator]

mapperFromMapping(m, typ, c, opts) ==
    IF opts.rowValidator = "nil"
    THEN regular(typ, m, filterColumns(c, m, opts.structTagPrefix))
    ELSE allOptions(typ, m, filterColumns(c, m, opts.structTagPrefix),
                    opts.rowValidator)

\* StructMapper[T](opts...) with the default source
structMapperFrom(typ, c, opts) ==
    mapperFromMapping(mappingContent(traversal[defaultSource][typ]), typ, c, opts)

\* StructMapper[T] with the default source and no option
StructMapper(typ, c) == structMapperFrom(typ, c, noOptions)

\* pt.MethodByName("MapValues") and the type of the method found: the
\* receiver it is declared on and what its second function returns ("T",
\* "*T", or "other" for a method of another shape).  The method set of *T
\* holds the methods of both receivers.
MethodByName(t) ==
    CASE t \in {"mappableVV", "mappableBadBefore", "mappableBadAfter"} ->
            [ok |-> TRUE, receiver |-> "value", returns |-> "T"]
      [] t = "mappableVP" -> [ok |-> TRUE, receiver |-> "value", returns |-> "*T"]
      [] t = "mappablePV" -> [ok |-> TRUE, receiver |-> "pointer", returns |-> "T"]
      [] t = "mappablePP" -> [ok |-> TRUE, receiver |-> "pointer", returns |-> "*T"]
      [] t = "methodWithWrongSignature" ->
            [ok |-> TRUE, receiver |-> "value", returns |-> "other"]
      [] OTHER -> [ok |-> FALSE, receiver |-> "none", returns |-> "none"]

\* a check that takes every MapValues to return T
mappableValueOnly(typ, isPointer) ==
    [ok |-> MethodByName(structOf(typ)).returns \in {"T", "*T"}, pointerResp |-> FALSE]

\* mappable[T](typ, isPointer): whether T maps itself, and whether its
\* after function returns *T
mappable(typ, isPointer) ==
    LET methodTyp == MethodByName(structOf(typ))
    IN IF ~methodTyp.ok THEN [ok |-> FALSE, pointerResp |-> FALSE]
       ELSE CASE methodTyp.returns = "T" -> [ok |-> TRUE, pointerResp |-> FALSE]
              [] methodTyp.returns = "*T" -> [ok |-> TRUE, pointerResp |-> TRUE]
              [] OTHER -> [ok |-> FALSE, pointerResp |-> FALSE]

\* The functions MapValues of the test types returns: before schedules
\* "id" into the ID of a T of its own, after multiplies that ID by 100;
\* mappableBadBefore fails in before, mappableBadAfter in after.
mappableMapper(typ, pointerResp) ==
    [kind |-> "mappable", typ |-> typ, keys |-> {<<0>>},
     sched |-> IF structOf(typ) \in {"mappableBadBefore", "mappableBadAfter"}
               THEN <<>> ELSE <<[name |-> "id", pos |-> <<0>>]>>,
     err |-> NoError,
     pointerResp |-> pointerResp,
     ownBefore |-> IF structOf(typ) = "mappableBadBefore"
                   THEN createError(PlainError("an error"), <<>>) ELSE NoError,
     ownAfter |-> IF structOf(typ) = "mappableBadAfter"
                  THEN createError(PlainError("an error"), <<>>) ELSE NoError]

\* structMapperFrom of the version that knows MapValues: a mappable type
\* maps itself, any other goes through its mapping
structMapperFromMappable(typ, c, opts) ==
    IF mappable(typ, IsPointerType(typ)).ok
    THEN mappableMapper(typ, mappable(typ, IsPointerType(typ)).pointerResp)
    ELSE mapperFromMapping(mappingContent(traversal[defaultSource][typ]), typ, c, opts)

ErrorMapper(err, meta) ==
    binder("error", "int", {<<0>>}, <<>>, createError(err, meta))

ColumnMapper(name) ==
    binder("column", "int", {<<0>>}, <<[name |-> name, pos |-> <<0>>]>>, NoError)

SingleColumnMapper(c) ==
    IF Len(c) # 1
    THEN ErrorMapper(PlainError("expected 1 column but got "
                                    \o ToString(Len(c)) \o " columns"),
                     <<"wrong column count", "1", ToString(Len(c))>>)
    ELSE binder("column", "int", {<<0>>}, <<[name |-> c[1], pos |-> <<0>>]>>,
                NoError)

SliceMapper(c) ==
    binder("slice", "[]int", {<<i - 1>> : i \in 1..Len(c)},
           [i \in 1..Len(c) |-> [name |-> c[i], pos |-> <<i - 1>>]], NoError)

\* A Mapper written by the caller: it schedules column "id" into a T of
\* its own, and its after function may fail.
CustomMapper ==
    binder("custom", "int", {<<0>>}, <<[name |-> "id", pos |-> <<0>>]>>, NoError)

\* A Mapper written by the caller whose before function does not do the
\* same for every row: it schedules column "id" into a T of its own, and
\* for the first row also a name the query does not have.
RowwiseMapper ==
    binder("rowwise", "int", {<<0>>}, <<[name |-> "id", pos |-> <<0>>]>>, NoError)

\* the ScheduleScan calls the before function of b makes for row r
schedOf(b, r) ==
    IF b.kind = "rowwise" /\ r = 1
    THEN Append(b.sched, [name |-> "unknown_column", pos |-> <<0>>])
    ELSE b.sched

\* A MapperMod written by the caller: its before function schedules the
\* named columns into an object of its own and may fail, its AfterMod
\* mutates the retrieved value and may fail.
MapperMod(names) ==
    binder("mod", "any", {<<i - 1>> : i \in 1..Len(names)},
           [i \in 1..Len(names) |-> [name |-> names[i], pos |-> <<i - 1>>]],
           NoError)

\* Mod(m, mods...): binder 1 is m, binder 1 + i is mods[i].  Mod with no
\* mods calls m's before and after and nothing else.
Mod(m, mods) == [comp |-> "Mod", binders |-> <<m>> \o mods]

MergeMapper(m1, m2) == [comp |-> "MergeMapper", binders |-> <<m1, m2>>]

-----------------------------------------------------------------------------
(* Values of the result type T: [nil, shared, f].  f holds the cells; a    *)
(* value is shared when copies of it refer to the same cells (a pointer    *)
(* to a struct, a slice), so that a mutation through a copy is visible.    *)

zeroCells(b) == [p \in b.keys |-> 0]

IsReference(b) ==
    \/ b.kind \in {"slice", "map"}
    \/ b.kind \in {"struct", "options", "mappable"} /\ IsPointerType(b.typ)

\* reflect.New(typ).Elem() of the struct type of a struct mapper
zeroStruct(b) == [p \in fieldPaths(structOf(b.typ), <<>>) |-> 0]

nilT == [nil |-> TRUE, shared |-> TRUE, f |-> <<>>]

\* var t T
ZeroT(b) ==
    IF IsReference(b) THEN nilT
    ELSE [nil |-> FALSE, shared |-> FALSE,
          f |-> IF b.kind = "options" THEN zeroStruct(b) ELSE zeroCells(b)]

Zero(m) ==
    IF m.comp = "Mod" THEN ZeroT(m.binders[1])
    ELSE [T1 |-> ZeroT(m.binders[1]), T2 |-> ZeroT(m.binders[2])]

\* the after function of a mapper of the library, given the object its
\* before function returned
\* s.filtered.cols()
colsOf(b) == [i \in 1..Len(b.sched) |-> b.sched[i].name]

firstNamed(cs, name) ==
    IF \E i \in 1..Len(cs) : cs[i] = name
    THEN CHOOSE i \in 1..Len(cs) :
            cs[i] = name /\ \A j \in 1..(i - 1) : cs[j] # name
    ELSE 0

\* The row validator a caller configures, here the one of the tests: it
\* looks for the column named id, accepts the row when the scratch value
\* of that column is one the first row delivers, and rejects a row
\* without that column.  acceptAll is the validator that accepts every row.
validator(name, cs, vals) ==
    \/ name = "acceptAll"
    \/ /\ name = "idOfFirstRow"
       /\ firstNamed(cs, "id") # 0
       /\ vals[<<firstNamed(cs, "id") - 1>>] \div 10 = 1

\* the loop of allOptions' after function over the first n filtered
\* entries: fv.Set(vals[i].Elem()) at info.position
RECURSIVE setFields(_, _, _)
setFields(b, vals, n) ==
    IF n = 0 THEN zeroStruct(b)
    ELSE [setFields(b, vals, n - 1) EXCEPT ![b.fields[n]] = vals[<<n - 1>>]]

\* a row the validator accepts built although it was rejected
allOptionsAfterNoValidator(b, vals) ==
    [nil |-> FALSE, shared |-> IsReference(b),
     f |-> setFields(b, vals, Len(b.sched))]

\* reflect.Value.Set panicking in an after function: the call does not
\* return, the panic unwinds through the callers of after.  The model
\* records it in place of the value.
panicked(text) == [nil |-> TRUE, shared |-> FALSE, f |-> <<>>, panic |-> text]

\* fv.Elem().Set(val) for a leaf with info.isPointer: val is vals[i].Elem(),
\* of the field's type *E, and fv.Elem() is of type E; Set panics when the
\* value is not assignable to the type of the destination
setPanics(b) == \E i \in 1..Len(b.sched) : b.isPointer[i]

\* the after function of allOptions, given the scratch values
allOptionsAfter(b, vals) ==
    IF b.validator # "nil" /\ ~validator(b.validator, colsOf(b), vals)
    THEN ZeroT(b)
    ELSE IF setPanics(b)
    THEN panicked("reflect.Set: value of type *E is not assignable to type E")
    ELSE [nil |-> FALSE, shared |-> IsReference(b),
          f |-> setFields(b, vals, Len(b.sched))]

\* the after function of the test types, given the T their before
\* function filled: it multiplies ID by 100 and returns the T, or its
\* address when the method is declared to return *T
MapValuesAfter(b, object) ==
    [nil |-> FALSE, shared |-> MethodByName(structOf(b.typ)).returns = "*T",
     f |-> [p \in DOMAIN object |-> 100 * object[p]]]

\* the after function mappable returns: the type's own when it returns
\* what the destination type is; otherwise a wrapper that dereferences
\* the *T (val.Elem()) or copies the T into a new one and returns its
\* address
mappableAfter(b, object) ==
    LET res == MapValuesAfter(b, object)
    IN IF IsPointerType(b.typ) = b.pointerResp THEN res
       ELSE IF b.pointerResp THEN [res EXCEPT !.shared = FALSE]
       ELSE [nil |-> FALSE, shared |-> TRUE, f |-> res.f]

afterOf(b, object) ==
    IF b.kind = "options" THEN allOptionsAfter(b, object)
    ELSE IF b.kind = "mappable" THEN mappableAfter(b, object)
    ELSE IF b.kind = "map"      \* a new map holding the copies *slice[index]
    THEN [nil |-> FALSE, shared |-> FALSE, f |-> object]
    ELSE [nil |-> FALSE, shared |-> IsReference(b), f |-> object]

\* an AfterMod working on a private copy of the retrieved value
modMutateLost(k, retrieved) == retrieved

\* the mutation AfterMod k makes through the retrieved value it is given
modMutate(k, retrieved) ==
    IF retrieved.shared /\ ~retrieved.nil
    THEN [retrieved EXCEPT !.f[<<0>>] = 2 * @ + k]
    ELSE retrieved

\* column i of row r as the row source delivers it
cellOf(r, i) == 10 * r + i

-----------------------------------------------------------------------------
(* The execution helpers.  The initial state is the state after            *)
(* wrapRows(rows, allowUnknown) and m(ctx, v.columnsCopy()) have run:      *)
(* every helper makes these two calls once, before the first rows.Next().  *)

MaxRows == 2
MaxMods == 2

Drivers == {"OneFromRows", "AllFromRows", "Each", "Cursor"}

\* the column lists of the queries
ColumnLists == {<<"id", "name">>, <<"name", "id">>, <<"id", "extra">>,
                <<"id", "extra", "more">>, <<"name">>, <<"id", "id">>,
                <<"a.b.c.y", "a.b.c.x">>}

Bases(c) == {StructMapper("User", c), StructMapper("*User", c), StructMapper("D1", c),
             structMapperFrom("User", c, WithRowValidator("idOfFirstRow")),
             structMapperFrom("*User", c, WithRowValidator("idOfFirstRow")),
             ColumnMapper("id"), SliceMapper(c), SingleColumnMapper(c), CustomMapper,
             RowwiseMapper}

ModKinds == {MapperMod(<<>>), MapperMod(<<"id">>)}

ModLists == UNION {[1..n -> ModKinds] : n \in 0..MaxMods}

Mappers(c) ==
    {Mod(m, mods) : m \in Bases(c), mods \in ModLists}
        \cup {MergeMapper(m1, m2) : m1 \in Bases(c),
                                    m2 \in {ColumnMapper("id"), StructMapper("User", c)}}

NB == Len(mapper.binders)
B  == mapper.binders[bi]

\* a link: the object binder b allocated while binding row r; nil otherwise
nilLink == [r |-> 0, b |-> 0]
Link(r, b) == [r |-> r, b |-> b]

\* what rows.Err() can return when the helper asks: the row source is a
\* collaborator, it may have failed or not
RowsErrs == {NoError, ErrRows}

Init ==
    /\ InitSource /\ InitCacheIdle /\ InitTravIdle /\ InitMapIdle
    /\ driver \in Drivers
    /\ \E c \in ColumnLists, allowUnknown \in BOOLEAN :
            /\ vrow = wrapRows(c, allowUnknown)
            /\ mapper \in Mappers(c)
    /\ rows = [err |-> NoError, nexts |-> 0]
    /\ row = 0
    /\ pc = "loop"
    /\ bi = 0
    /\ bj = 0
    /\ cells = [b \in 1..Len(mapper.binders) |-> zeroCells(mapper.binders[b])]
    /\ alinks = <<>>
    /\ links = [i \in 1..(Len(mapper.binders) - 1) |-> nilLink]
    /\ val = <<>>
    /\ tval = Zero(mapper)
    /\ ret = <<>>
    /\ log = <<>>
    /\ modlog = <<>>
    /\ results = <<>>
    /\ out = <<>>

\* rows.Next() returns true and the helper calls scanOneRow (for a cursor:
\* the caller calls Next and then Get); before starts with binder 1.
NextRow ==
    /\ pc = "loop"
    /\ row < MaxRows
    /\ row' = row + 1
    /\ pc' = "before"
    /\ bi' = 1
    /\ bj' = 0
    /\ cells' = [cells EXCEPT ![1] = zeroCells(mapper.binders[1])]
    /\ alinks' = <<>>
    /\ val' = <<>>
    /\ tval' = Zero(mapper)
    /\ ret' = <<>>
    /\ log' = <<>>
    /\ modlog' = <<>>
    /\ rows' = [rows EXCEPT !.nexts = @ + 1]
    /\ UNCHANGED <<driver, mapper, vrow, links, results, out,
                   srcVars, cacheVars, travVars, mapVars>>

\* a OneFromRows that hands on rows.Err() in place of ErrNoRows
noRowsReturnsRowsErr(t, e) == [val |-> t, err |-> e]

\* OneFromRows when rows.Next() returned false and rows.Err() returned e
noRowsReturns(t, e) == [val |-> t, err |-> IF e # NoError THEN e ELSE ErrNoRows]

\* Each when rows.Next() returned false: the loop ends and the iterator
\* returns; nothing more is yielded (yielded: the last pair it yielded)
eachEnds(yielded, e) == yielded

\* rows.Next() returns false: the rows are exhausted, or the source failed
\* and rows.Err() reports it
NoMoreRows ==
    /\ pc = "loop"
    /\ pc' = "done"
    /\ \E e \in RowsErrs :
        /\ rows' = [rows EXCEPT !.err = e, !.nexts = @ + 1]
        /\ out' = CASE driver = "OneFromRows" ->
                         <<noRowsReturns(Zero(mapper), e)>>
                    [] driver = "AllFromRows" -> <<[val |-> results, err |-> e]>>
                    [] driver = "Each" -> eachEnds(out, e)
                    [] driver = "Cursor" -> <<[val |-> <<>>, err |-> e]>>
    /\ UNCHANGED <<driver, mapper, vrow, row, bi, bj, cells, alinks, links, val,
                   tval, ret, log, modlog, results, srcVars, cacheVars, travVars, mapVars>>

-----------------------------------------------------------------------------
(* scanOneRow: before(v), v.scanCurrentRow(), after(val).                  *)

\* one entry of log: a call scanOneRow made, with what it passed or got back
call(op, link, targets, err) ==
    [op |-> op, link |-> link, targets |-> targets, err |-> err]

\* one entry of modlog: a call made by or to binder who: "schedule" (link:
\* the destination, seen: the column name), "before" (link: the link it
\* returned), "after" (link: the link it was given, seen: the value it was
\* given)
bcall(op, who, link, seen, err) ==
    [op |-> op, who |-> who, link |-> link, seen |-> seen, err |-> err]

\* the errors the before / after function of a binder can return
beforeErrors(b) ==
    CASE b.kind = "error" -> {b.err}
      [] b.kind = "mappable" -> {b.ownBefore}
      [] b.kind = "mod"   -> {NoError, ErrBefore(b)}
      [] OTHER            -> {NoError}

afterErrors(b) ==
    CASE b.kind = "error" -> {b.err}
      [] b.kind = "mappable" -> {b.ownAfter}
      [] b.kind \in {"mod", "custom"} -> {NoError, ErrAfter(b)}
      [] OTHER            -> {NoError}

\* The running before function calls v.ScheduleScan / v.ScheduleScanx.
ScheduleScan ==
    /\ pc = "before"
    /\ bj < Len(schedOf(B, row))
    /\ vrow' = ScheduleScanx(vrow, schedOf(B, row)[bj + 1].name,
                             Addr(row, bi, schedOf(B, row)[bj + 1].pos))
    /\ bj' = bj + 1
    /\ modlog' = Append(modlog, bcall("schedule", bi,
                                      Addr(row, bi, schedOf(B, row)[bj + 1].pos),
                                      schedOf(B, row)[bj + 1].name, NoError))
    /\ UNCHANGED <<driver, mapper, rows, row, pc, bi, cells, alinks, links, val, tval,
                   ret, log, results, out, srcVars, cacheVars, travVars, mapVars>>

\* The mapper's before function after binder bi returned (link, err):
\* Mod stores a mod's link in links[i] and keeps the base link in a,
\* MergeMapper keeps t1 and t2; an error ends before with (nil, err) and
\* scanOneRow with the zero T; after the last binder before returns its
\* link and scanOneRow goes on to scanCurrentRow.
BinderReturnsSkipError(err) ==
    LET link == IF err = NoError THEN Link(row, bi) ELSE nilLink
        isMod == mapper.comp = "Mod" /\ bi > 1
        kept == IF isMod \/ err # NoError THEN alinks ELSE Append(alinks, link)
    IN /\ modlog' = Append(modlog, bcall("before", bi, link, tval, err))
       /\ links' = IF isMod THEN [links EXCEPT ![bi - 1] = link] ELSE links
       /\ alinks' = kept
       /\ IF bi < NB
          THEN /\ bi' = bi + 1
               /\ bj' = 0
               /\ cells' = [cells EXCEPT ![bi + 1] = zeroCells(mapper.binders[bi + 1])]
               /\ UNCHANGED <<pc, val, ret, log>>
          ELSE /\ log' = Append(log, call("before", kept, <<>>, NoError))
               /\ val' = kept
               /\ pc' = "scan"
               /\ UNCHANGED <<bi, bj, cells, ret>>

BinderReturns(err) ==
    LET link == IF err = NoError THEN Link(row, bi) ELSE nilLink
        isMod == mapper.comp = "Mod" /\ bi > 1
        kept == IF isMod \/ err # NoError THEN alinks ELSE Append(alinks, link)
    IN /\ modlog' = Append(modlog, bcall("before", bi, link, tval, err))
       /\ links' = IF isMod THEN [links EXCEPT ![bi - 1] = link] ELSE links
       /\ alinks' = kept
       /\ IF err # NoError
          THEN /\ log' = Append(log, call("before", <<>>, <<>>, err))
               /\ ret' = <<[val |-> Zero(mapper), err |-> err]>>
               /\ pc' = "ret"
               /\ UNCHANGED <<bi, bj, cells, val>>
          ELSE IF bi < NB
          THEN /\ bi' = bi + 1
               /\ bj' = 0
               /\ cells' = [cells EXCEPT ![bi + 1] = zeroCells(mapper.binders[bi + 1])]
               /\ UNCHANGED <<pc, val, ret, log>>
          ELSE /\ log' = Append(log, call("before", kept, <<>>, NoError))
               /\ val' = kept
               /\ pc' = "scan"
               /\ UNCHANGED <<bi, bj, cells, ret>>

BeforeReturn ==
    /\ pc = "before"
    /\ bj = Len(schedOf(B, row))
    /\ \E err \in beforeErrors(B) : BinderReturns(err)
    /\ UNCHANGED <<driver, mapper, vrow, rows, row, tval, results, out,
                   srcVars, cacheVars, travVars, mapVars>>

\* rows.Scan(targets...) writing row r: every target that is the address of
\* a cell receives the value of its column (the later column on a tie)
Scan(cs, targets, r) ==
    [b \in DOMAIN cs |->
        [p \in DOMAIN cs[b] |->
            LET hits == {i \in 1..Len(targets) : targets[i] = Addr(r, b, p)}
            IN IF hits = {} THEN cs[b][p]
               ELSE cellOf(r, CHOOSE i \in hits : \A k \in hits : k <= i)]]

\* scanOneRow when v.scanCurrentRow() returned err: it returns the zero T
\* and err without calling after
scanFailsGoesOn(err) ==
    /\ pc' = "after"
    /\ bi' = 1
    /\ UNCHANGED <<vrow, cells, ret>>

scanFails(err) ==
    /\ ret' = <<[val |-> Zero(mapper), err |-> err]>>
    /\ pc' = "ret"
    /\ UNCHANGED <<vrow, cells, bi>>

\* v.scanCurrentRow() and what scanOneRow does with its error
scanCurrentRow ==
    /\ pc = "scan"
    /\ IF Len(vrow.unknownDestinations) > 0
       THEN /\ scanFails(createError(PlainError("unknown columns to map to"),
                                     vrow.unknownDestinations))
            /\ UNCHANGED log
       ELSE LET ct == createTargets(vrow)
            IN IF ct.err # NoError
               THEN scanFails(ct.err) /\ UNCHANGED log
               ELSE \E err \in {NoError, ErrScan} :
                      /\ log' = Append(log, call("Scan", <<>>, ct.targets, err))
                      /\ IF err # NoError
                         THEN scanFails(err)
                         ELSE /\ cells' = Scan(cells, ct.targets, row)
                              /\ vrow' = resetDestinations(vrow)
                              /\ pc' = "after"
                              /\ bi' = 1
                              /\ UNCHANGED ret
    /\ UNCHANGED <<driver, mapper, rows, row, bj, alinks, links, val, tval, modlog,
                   results, out, srcVars, cacheVars, travVars, mapVars>>

\* the object a link refers to: the cells of the current row's object
objectOf(link) == cells[link.b]

\* the call an after function makes to the configured row validator,
\* recorded ahead of the after function's own return
validatorCalls(b, who, link) ==
    IF b.kind = "options" /\ b.validator # "nil"
    THEN <<bcall("validate", who, link,
                 [cols |-> colsOf(b), vals |-> objectOf(link)], NoError)>>
    ELSE <<>>

afterEnds(value, err) ==
    /\ ret' = <<[val |-> value, err |-> err]>>
    /\ pc' = "ret"
    /\ UNCHANGED bi

\* Mod's after function, one call at a time: binder 1 is after(v) of the
\* base mapper, binder 1 + i is afters[i](links[i], t).
ModAfter(err) ==
    LET retrieved == IF bi = 1 THEN afterOf(B, objectOf(val[1]))
                     ELSE modMutate(bi - 1, tval)
        link      == IF bi = 1 THEN val[1] ELSE links[bi - 1]
    IN /\ tval' = IF bi = 1 /\ err # NoError THEN Zero(mapper) ELSE retrieved
       /\ modlog' = modlog \o validatorCalls(B, bi, link)
                            \o <<bcall("after", bi, link, tval, err)>>
       /\ IF err # NoError THEN afterEnds(tval', err)
          ELSE IF bi < NB THEN bi' = bi + 1 /\ UNCHANGED <<ret, pc>>
          ELSE afterEnds(tval', NoError)

\* MergeMapper's after function: mr.T1 = after1(v[0]), mr.T2 = after2(v[1])
MergeAfter(err) ==
    LET one == IF err # NoError THEN ZeroT(B) ELSE afterOf(B, objectOf(val[bi]))
    IN /\ tval' = IF bi = 1 THEN [tval EXCEPT !.T1 = one]
                  ELSE [tval EXCEPT !.T2 = one]
       /\ modlog' = modlog \o validatorCalls(B, bi, val[bi])
                            \o <<bcall("after", bi, val[bi], tval, err)>>
       /\ IF err # NoError THEN afterEnds(tval', err)
          ELSE IF bi < NB THEN bi' = bi + 1 /\ UNCHANGED <<ret, pc>>
          ELSE afterEnds(tval', NoError)

\* scanOneRow calls after(val); the after function of binder bi returns
AfterReturn ==
    /\ pc = "after"
    /\ log' = IF bi = 1 THEN Append(log, call("after", val, <<>>, NoError)) ELSE log
    /\ \E err \in afterErrors(B) :
            IF mapper.comp = "Mod" THEN ModAfter(err) ELSE MergeAfter(err)
    /\ UNCHANGED <<driver, mapper, vrow, rows, row, bj, cells, alinks, links, val,
                   results, out, srcVars, cacheVars, travVars, mapVars>>

\* scanOneRow has returned and its caller has taken the result: the locals
\* of the call and the objects only they referred to are gone, and the
\* record of the calls made for the row is closed
leaveScanOneRow ==
    /\ bi' = 0
    /\ bj' = 0
    /\ cells' = [b \in 1..NB |-> zeroCells(mapper.binders[b])]
    /\ alinks' = <<>>
    /\ val' = <<>>
    /\ tval' = Zero(mapper)
    /\ ret' = <<>>
    /\ log' = <<>>
    /\ modlog' = <<>>

\* OneFromRows returns after its row
OneReturns ==
    /\ pc = "ret"
    /\ driver = "OneFromRows"
    /\ IF ret[1].err # NoError
       THEN out' = <<ret[1]>> /\ UNCHANGED rows
       ELSE \E e \in RowsErrs :
                /\ rows' = [rows EXCEPT !.err = e]
                /\ out' = <<[val |-> ret[1].val, err |-> e]>>
    /\ pc' = "done"
    /\ leaveScanOneRow
    /\ UNCHANGED <<driver, mapper, vrow, row, links, results, srcVars, cacheVars, travVars, mapVars>>

\* an AllFromRows that leaves out the rows that came back as the zero T
collectNonZero(rs, one) == IF one = Zero(mapper) THEN rs ELSE Append(rs, one)

\* results = append(results, one)
collect(rs, one) == Append(rs, one)

\* AllFromRows returns on an error, else appends to results and loops
AllCollects ==
    /\ pc = "ret"
    /\ driver = "AllFromRows"
    /\ IF ret[1].err # NoError
       THEN /\ out' = <<[val |-> <<>>, err |-> ret[1].err]>>
            /\ pc' = "done"
            /\ UNCHANGED results
       ELSE /\ results' = collect(results, ret[1].val)
            /\ pc' = "loop"
            /\ UNCHANGED out
    /\ leaveScanOneRow
    /\ UNCHANGED <<driver, mapper, vrow, rows, row, links, srcVars, cacheVars, travVars, mapVars>>

\* Each yields (val, err) and stops when yield returns false; out holds
\* the last pair yielded
EachYields ==
    /\ pc = "ret"
    /\ driver = "Each"
    /\ out' = <<ret[1]>>
    /\ \E continue \in BOOLEAN : pc' = IF continue THEN "loop" ELSE "done"
    /\ leaveScanOneRow
    /\ UNCHANGED <<driver, mapper, vrow, rows, row, links, results,
                   srcVars, cacheVars, travVars, mapVars>>

\* cursor.Get() returns to the caller, who goes on or stops
CursorGets ==
    /\ pc = "ret"
    /\ driver = "Cursor"
    /\ \E continue \in BOOLEAN : pc' = IF continue THEN "loop" ELSE "done"
    /\ leaveScanOneRow
    /\ UNCHANGED <<driver, mapper, vrow, rows, row, links, results, out,
                   srcVars, cacheVars, travVars, mapVars>>

Next ==
    \/ NextRow
    \/ NoMoreRows
    \/ ScheduleScan
    \/ BeforeReturn
    \/ scanCurrentRow
    \/ AfterReturn
    \/ OneReturns
    \/ AllCollects
    \/ EachYields
    \/ CursorGets

Spec == Init /\ [][Next]_vars

-----------------------------------------------------------------------------
(* RunMapperTest: the tests call a mapper's functions themselves.  before   *)
(* is called on the test's row, every scheduled destination is set from    *)
(* the scanned values, and after is called with the link whatever before   *)
(* returned.                                                               *)

HarnessColumnLists == ColumnLists \cup {<<>>, <<"id", "created_at">>, <<"blog.id", "id">>}

\* the mappers of the execution helpers, and StructMapper[T] and
\* StructMapper[*T] for the types of TestMappable
HarnessBases(c) ==
    Bases(c) \cup {structMapperFromMappable(typ, c, noOptions) :
                        typ \in MethodTestTypes \cup {"*" \o t : t \in MethodTestTypes}}
             \cup {structMapperFrom(typ, c, opts) :
                        typ \in {"UserWithTimestamps", "PtrUser2", "*PtrUser2"},
                        opts \in {noOptions, WithRowValidator("acceptAll")}}
             \cup {structMapperFrom(typ, c, WithRowValidator("acceptAll")) :
                        typ \in {"User", "*User", "D1"}}

InitHarness ==
    /\ InitSource /\ InitCacheIdle /\ InitTravIdle /\ InitMapIdle
    /\ driver = "RunMapperTest"
    /\ \E c \in HarnessColumnLists, allowUnknown \in BOOLEAN :
            /\ vrow = wrapRows(c, allowUnknown)
            /\ mapper \in {Mod(m, <<>>) : m \in HarnessBases(c)}
    /\ rows = [err |-> NoError, nexts |-> 0]
    /\ row = 1
    /\ pc = "before"
    /\ bi = 1
    /\ bj = 0
    /\ cells = [b \in 1..Len(mapper.binders) |-> zeroCells(mapper.binders[b])]
    /\ alinks = <<>>
    /\ links = <<>>
    /\ val = <<>>
    /\ tval = Zero(mapper)
    /\ ret = <<>>
    /\ log = <<>>
    /\ modlog = <<>>
    /\ results = <<>>
    /\ out = <<>>

\* link, err := before(tc.row)
HarnessBefore ==
    /\ driver = "RunMapperTest"
    /\ pc = "before"
    /\ bj = Len(schedOf(B, row))
    /\ \E err \in beforeErrors(B) :
        LET link == IF err = NoError THEN Link(row, bi) ELSE nilLink
        IN /\ modlog' = Append(modlog, bcall("before", bi, link, tval, err))
           /\ log' = Append(log, call("before", <<link>>, <<>>, err))
           /\ val' = <<link>>
    /\ pc' = "set"
    /\ UNCHANGED <<driver, mapper, vrow, rows, row, bi, bj, cells, alinks, links,
                   tval, ret, results, out, srcVars, cacheVars, travVars, mapVars>>

\* ref.Elem().Set(reflect.ValueOf(tc.scanned[i])) for every destination set
HarnessSet ==
    /\ driver = "RunMapperTest"
    /\ pc = "set"
    /\ cells' = Scan(cells, vrow.scanDestinations, row)
    /\ pc' = "after"
    /\ UNCHANGED <<driver, mapper, vrow, rows, row, bi, bj, alinks, links, val,
                   tval, ret, log, modlog, results, out,
                   srcVars, cacheVars, travVars, mapVars>>

\* an after function of ErrorMapper that reports success
ErrorMapperAfterNil(b) == [val |-> ZeroT(b), err |-> NoError]

\* the after function of ErrorMapper: var t T; return t, err
ErrorMapperAfter(b) == [val |-> ZeroT(b), err |-> b.err]

\* val, err := after(link)
HarnessAfter ==
    /\ driver = "RunMapperTest"
    /\ pc = "after"
    /\ \E err \in afterErrors(B) :
        /\ ret' = <<IF B.kind = "error" THEN ErrorMapperAfter(B)
                    ELSE IF err # NoError THEN [val |-> ZeroT(B), err |-> err]
                    ELSE [val |-> afterOf(B, cells[bi]), err |-> NoError]>>
        /\ modlog' = modlog \o (IF val[1] = nilLink THEN <<>>
                                 ELSE validatorCalls(B, bi, val[1]))
                            \o <<bcall("after", bi, val[1], tval, err)>>
        /\ log' = Append(log, call("after", val, <<>>, err))
    /\ pc' = "done"
    /\ UNCHANGED <<driver, mapper, vrow, rows, row, bi, bj, cells, alinks, links,
                   val, tval, results, out, srcVars, cacheVars, travVars, mapVars>>

NextHarness ==
    \/ ScheduleScan
    \/ HarnessBefore
    \/ HarnessSet
    \/ HarnessAfter

SpecHarness == InitHarness /\ [][NextHarness]_vars

-----------------------------------------------------------------------------
(* A struct mapper source in use: StructMapper[T] mappers with a prefix    *)
(* option are called with column lists, one call after the other, and the  *)
(* before and after functions of the last call are run.  Every call goes   *)
(* through getMapping and filterColumns; the types are struct types, for   *)
(* which checks(typ) passes.                                               *)

MaxCols == 2

MapTypes == {"User", "UserWithTimestamps"}

MapColumns == {"id", "p-id", "p-blog.id", "p-x"}

MapColumnLists == UNION {[1..n -> MapColumns] : n \in 0..MaxCols}

MapPrefixes == {"", "p-"}

\* the mapping setMappings computes for each of the types, per source
computed ==
    [s \in Sources |-> [typ \in MapTypes |-> mappingContent(traversal[s][typ])]]

InitMapping ==
    /\ InitSource /\ InitCacheIdle /\ InitTravIdle /\ InitRowIdle
    /\ mpc = "idle"
    /\ mtyp = "User"
    /\ mret = <<>>
    /\ mcols = <<>>
    /\ mprefix = ""
    /\ mfiltered = <<>>
    /\ mfirst = [t \in {} |-> <<>>]
    /\ mrow = [alloc |-> {}, sched |-> <<>>]

\* structMapperFrom[T](ctx, c, src, opts): getMapping(typ), storing the
\* mapping on a miss, then filterColumns over the mapping it returned
StructMapperCall(typ, c, prefix) ==
    LET key == cacheKey(typ)
        m   == IF key \in DOMAIN cache THEN cache[key]
               ELSE computed[src][typ]
    IN /\ mpc \in {"idle", "returned"}
       /\ cache' = [t \in DOMAIN cache \cup {key} |->
                        IF t = key THEN filterColumnsLeaves(c, m, prefix, 1)
                        ELSE cache[t]]
       /\ mret' = m
       /\ mfirst' = IF typ \in DOMAIN mfirst
                    THEN [mfirst EXCEPT ![typ].again = TRUE]
                    ELSE [t \in DOMAIN mfirst \cup {typ} |->
                            IF t = typ THEN [m |-> m, again |-> FALSE]
                            ELSE mfirst[t]]
       /\ mfiltered' = filterColumns(c, m, prefix)
       /\ mtyp' = typ
       /\ mcols' = c
       /\ mprefix' = prefix
       /\ mrow' = [alloc |-> {}, sched |-> <<>>]
       /\ mpc' = "called"
       /\ UNCHANGED <<readers, writer, gpc, gtyp, gm, gok, gcalls, returned, missed,
                      srcVars, travVars, rowVars>>

\* the before function of regular: the pointer fields on the init chains
\* are allocated, every filtered entry is scheduled at its position
RegularBefore ==
    /\ mpc = "called"
    /\ mrow' = [alloc |-> UNION {{mfiltered[i].init[e] :
                                    e \in 1..Len(mfiltered[i].init)} :
                                 i \in 1..Len(mfiltered)},
                sched |-> [i \in 1..Len(mfiltered) |->
                              [name |-> mfiltered[i].name,
                               pos |-> mfiltered[i].position]]]
    /\ mpc' = "bound"
    /\ UNCHANGED <<mtyp, mret, mcols, mprefix, mfiltered, mfirst,
                   srcVars, cacheVars, travVars, rowVars>>

\* the after function of regular returns the row object
RegularAfter ==
    /\ mpc = "bound"
    /\ mpc' = "returned"
    /\ UNCHANGED <<mtyp, mret, mcols, mprefix, mfiltered, mfirst, mrow,
                   srcVars, cacheVars, travVars, rowVars>>

NextMapping ==
    \/ \E typ \in MapTypes, c \in MapColumnLists, prefix \in MapPrefixes :
            StructMapperCall(typ, c, prefix)
    \/ RegularBefore
    \/ RegularAfter

SpecMapping == InitMapping /\ [][NextMapping]_vars

-----------------------------------------------------------------------------
(* Properties of scanOneRow (specification Spec).                          *)

Range(f) == {f[i] : i \in DOMAIN f}

ops(l) == [i \in 1..Len(l) |-> l[i].op]

\* the error scanCurrentRow returns without calling Scan, NoError if none
targetError(r) ==
    IF Len(r.unknownDestinations) > 0
    THEN createError(PlainError("unknown columns to map to"), r.unknownDestinations)
    ELSE createTargets(r).err

\* C1: for every row processed by OneFromRows, AllFromRows, Each or
\* Cursor.Get the calls are before, then Scan, then after with the link
\* before returned; when before fails neither Scan nor after is called and
\* the zero T is returned with its error; when creating the targets or Scan
\* fails after is not called and the zero T is returned with that error.
C1_BindScanMaterialize ==
    /\ driver \in Drivers
    /\ ops(log) \in {<<>>, <<"before">>, <<"before", "Scan">>,
                     <<"before", "Scan", "after">>}
    /\ pc = "before" => log = <<>>
    /\ pc = "scan" => ops(log) = <<"before">> /\ log[1].err = NoError
    /\ pc = "after" => Len(log) >= 2 /\ log[2].err = NoError
    /\ Len(log) >= 2 => log[1].err = NoError /\ val = log[1].link
    /\ Len(log) = 3 => log[2].err = NoError /\ log[3].link = log[1].link
    /\ pc = "ret" =>
        /\ Len(ret) = 1
        /\ Len(log) >= 1
        /\ log[1].err # NoError =>
                Len(log) = 1 /\ ret[1] = [val |-> Zero(mapper), err |-> log[1].err]
        /\ Len(log) = 1 /\ log[1].err = NoError =>
                /\ targetError(vrow) # NoError
                /\ ret[1] = [val |-> Zero(mapper), err |-> targetError(vrow)]
        /\ Len(log) = 2 =>
                /\ log[2].err # NoError
                /\ ret[1] = [val |-> Zero(mapper), err |-> log[2].err]
        /\ ret[1].err = NoError => Len(log) = 3

\* the second row of an Each iteration went through before, Scan and after
C1_Witness ==
    /\ driver = "Each"
    /\ row = 2
    /\ pc = "ret"
    /\ ops(log) = <<"before", "Scan", "after">>
    /\ ret[1].err = NoError

\* the columns whose slot is unset
unbound(r) == {i \in 1..Len(r.columns) : r.scanDestinations[i] = zeroValue}

isBefore(e) == e.op = "before"
isAfter(e)  == e.op = "after"
isSchedule(e) == e.op = "schedule"

befores == SelectSeq(modlog, isBefore)
afters  == SelectSeq(modlog, isAfter)

\* C3: the before function of Mod(m, mods...) calls m's before first and
\* then, while no call has failed, the mods' before functions in
\* registration order; the first failing call (base or mod) ends it with
\* that error unchanged and no later before function runs or schedules.
C3_ModBindOrder ==
    mapper.comp = "Mod" =>
        /\ \A k \in 1..Len(befores) : befores[k].who = k
        /\ \A k \in 1..(Len(befores) - 1) : befores[k].err = NoError
        /\ \A i \in 1..Len(modlog) : \A j \in i..Len(modlog) :
                (modlog[i].op \in {"before", "schedule"}
                        /\ modlog[j].op \in {"before", "schedule"})
                    => modlog[i].who <= modlog[j].who
        /\ pc = "before" =>
                /\ Len(befores) = bi - 1
                /\ \A k \in 1..Len(befores) : befores[k].err = NoError
        /\ pc \in {"scan", "after"} =>
                /\ Len(befores) = NB
                /\ befores[NB].err = NoError
        /\ (Len(befores) >= 1 /\ befores[Len(befores)].err # NoError) =>
                /\ pc = "ret"
                /\ modlog[Len(modlog)] = befores[Len(befores)]
                /\ log = <<call("before", <<>>, <<>>, befores[Len(befores)].err)>>
                /\ ret[1].err = befores[Len(befores)].err

\* a base and two mods: the first mod's before failed, the second never ran
C3_Witness ==
    /\ mapper.comp = "Mod"
    /\ NB = 3
    /\ pc = "ret"
    /\ Len(befores) = 2
    /\ befores[1].err = NoError
    /\ befores[2].err # NoError
    /\ mapper.binders[3].sched # <<>>

\* cell <<0>> of a shared value that held x after the AfterMods 1..n ran
RECURSIVE expectMutated(_, _)
expectMutated(x, n) == IF n = 0 THEN x ELSE 2 * expectMutated(x, n - 1) + n

\* what the base mapper materializes from the object its before returned
baseValue == afterOf(mapper.binders[1], cells[1])

\* the base value after the AfterMods 1..n ran: a value that is not shared
\* reaches every mod as a copy
expectValue(n) ==
    IF baseValue.shared /\ ~baseValue.nil
    THEN [baseValue EXCEPT !.f[<<0>>] = expectMutated(@, n)]
    ELSE baseValue

\* C4: the after function of Mod(m, mods...) calls m's after first and
\* returns at once when it fails; then it calls the AfterMods in
\* registration order, AfterMod k with links[k] and with the value as the
\* AfterMods 1..k-1 left it; the first AfterMod that fails ends the chain:
\* no later one runs and its error is returned unchanged.
C4_ModMaterializeOrder ==
    mapper.comp = "Mod" =>
        /\ \A k \in 1..Len(afters) : afters[k].who = k
        /\ \A k \in 1..(Len(afters) - 1) : afters[k].err = NoError
        /\ pc = "after" => Len(afters) = bi - 1
        /\ Len(afters) >= 1 => afters[1].link = val[1]
        /\ \A k \in 2..Len(afters) :
                /\ afters[k].link = links[k - 1]
                /\ afters[k].seen = expectValue(k - 2)
        /\ (Len(afters) >= 1 /\ afters[Len(afters)].err # NoError) =>
                /\ pc = "ret"
                /\ modlog[Len(modlog)] = afters[Len(afters)]
                /\ ret[1].err = afters[Len(afters)].err
                /\ Len(afters) >= 2 => ret[1].val = expectValue(Len(afters) - 1)
        /\ (pc = "ret" /\ ret[1].err = NoError) =>
                /\ Len(afters) = NB
                /\ ret[1].val = expectValue(NB - 1)

\* StructMapper[*User] with two mods: the second AfterMod was given the
\* user whose ID the first one had changed
C4_Witness ==
    /\ mapper.comp = "Mod"
    /\ NB = 3
    /\ mapper.binders[1].kind = "struct"
    /\ mapper.binders[1].typ = "*User"
    /\ pc = "ret"
    /\ Len(afters) = 3
    /\ cells[1][<<0>>] = cellOf(row, 1)
    /\ afters[2].seen.f[<<0>>] = cellOf(row, 1)
    /\ afters[3].seen.f[<<0>>] = 2 * cellOf(row, 1) + 1
    /\ ret[1].val.f[<<0>>] = 2 * (2 * cellOf(row, 1) + 1) + 2

\* C8: when scanCurrentRow fails with the no-destination error, the
\* metadata of the error lists every column that has no destination.
C8_EveryUnboundColumnListed ==
    (/\ pc = "ret"
     /\ ~vrow.allowUnknown
     /\ ret[1].err.kind = "MappingError"
     /\ Len(ret[1].err.meta) >= 1
     /\ ret[1].err.meta[1] = "no destination")
        => \A i \in unbound(vrow) : vrow.columns[i] \in Range(ret[1].err.meta)

\* C9: in every state of a Row (after wrapRows, after every ScheduleScan
\* call, after scanCurrentRow whether it failed or not) there is one
\* destination slot per query column; once Scan has succeeded for a row
\* every slot is unset, until the next bind phase.
C9_SlotPerColumn ==
    /\ Len(vrow.scanDestinations) = Len(vrow.columns)
    /\ DOMAIN vrow.scanDestinations = 1..Len(vrow.columns)
    /\ (Len(log) >= 2 /\ log[2].err = NoError) =>
            \A i \in 1..Len(vrow.columns) : vrow.scanDestinations[i] = zeroValue

\* the second row of a three column query was scanned into scheduled
\* destinations, and the slots are unset again
C9_Witness ==
    /\ pc = "after"
    /\ row = 2
    /\ Len(vrow.columns) = 3
    /\ \E i \in 1..3 : log[2].targets[i].kind = "addr"
    /\ \A i \in 1..3 : vrow.scanDestinations[i] = zeroValue

\* C10: when a bind phase schedules a query column twice by name, no
\* error comes of it (the name is not recorded as unknown and, when every
\* column has a destination, Scan is called); the slot of the column
\* holds the destination scheduled last until Scan has succeeded; Scan is
\* handed that destination and not the one scheduled first; and after a
\* successful Scan the destination scheduled first still holds what it
\* held before, its zero value.
C10_LastScheduleWins ==
    \A x \in 1..Len(modlog) : \A y \in (x + 1)..Len(modlog) :
        (/\ isSchedule(modlog[x])
         /\ isSchedule(modlog[y])
         /\ modlog[x].seen = modlog[y].seen
         /\ modlog[x].link # modlog[y].link
         /\ firstColumn(vrow.columns, modlog[y].seen) # 0
         /\ \A z \in (y + 1)..Len(modlog) :
                isSchedule(modlog[z]) => modlog[z].seen # modlog[y].seen)
        => LET c == firstColumn(vrow.columns, modlog[y].seen)
           IN /\ modlog[y].seen \notin Range(vrow.unknownDestinations)
              /\ (pc \in {"before", "scan"} \/ (pc = "ret" /\ Len(log) <= 1)
                    \/ (Len(log) >= 2 /\ log[2].err # NoError))
                    => vrow.scanDestinations[c] = modlog[y].link
              /\ (pc = "ret" /\ Len(log) = 1 /\ log[1].err = NoError)
                    => (unbound(vrow) # {} \/ Len(vrow.unknownDestinations) > 0)
              /\ Len(log) >= 2 =>
                    /\ log[2].targets[c] = modlog[y].link
                    /\ modlog[x].link \notin Range(log[2].targets)
              /\ (Len(log) >= 2 /\ log[2].err = NoError) =>
                    /\ cells[modlog[y].link.b][modlog[y].link.pos] = cellOf(row, c)
                    /\ cells[modlog[x].link.b][modlog[x].link.pos] = 0

\* MergeMapper of two mappers that both schedule "id": the second mapper's
\* destination was scanned, the first mapper's is untouched
C10_Witness ==
    /\ mapper.comp = "MergeMapper"
    /\ pc = "after"
    /\ \E x \in 1..Len(modlog) : \E y \in (x + 1)..Len(modlog) :
        /\ isSchedule(modlog[x]) /\ isSchedule(modlog[y])
        /\ modlog[x].seen = "id" /\ modlog[y].seen = "id"
        /\ modlog[x].who = 1 /\ modlog[y].who = 2
        /\ cells[2][modlog[y].link.pos] = cellOf(row, firstColumn(vrow.columns, "id"))
        /\ cells[1][modlog[x].link.pos] = 0

\* the leaf names of the descriptor of a struct type under the default source
leafNames(typ) ==
    {mappingContent(traversal[defaultSource][typ])[k].name :
        k \in 1..Len(mappingContent(traversal[defaultSource][typ]))}

\* C11: when two query columns carry the same name and the name is a leaf
\* of the struct, the struct mapper has one bind target per column, after
\* its bind phase both columns have a destination, and the leaf
\* materialized holds the value of the later column.
C11_DuplicateColumnsBothBound ==
    \A i \in 1..Len(vrow.columns) : \A j \in (i + 1)..Len(vrow.columns) :
        (/\ mapper.comp = "Mod"
         /\ NB = 1
         /\ mapper.binders[1].kind = "struct"
         /\ vrow.columns[i] = vrow.columns[j]
         /\ vrow.columns[i] \in leafNames(mapper.binders[1].typ))
        => /\ Cardinality({k \in 1..Len(mapper.binders[1].sched) :
                            mapper.binders[1].sched[k].name = vrow.columns[i]}) = 2
           /\ pc = "scan" =>
                /\ vrow.scanDestinations[i] # zeroValue
                /\ vrow.scanDestinations[j] # zeroValue
           /\ (pc = "ret" /\ ret[1].err = NoError) =>
                \E k \in 1..Len(mapper.binders[1].sched) :
                    /\ mapper.binders[1].sched[k].name = vrow.columns[j]
                    /\ ret[1].val.f[mapper.binders[1].sched[k].pos] = cellOf(row, j)

\* a struct type none of whose fields, at any depth, is a pointer
RECURSIVE NoPointerField(_)
NoPointerField(t) ==
    \A i \in 1..Len(StructFields(t)) :
        LET f == StructFields(t)[i]
        IN /\ Kind(f.typ) # "ptr"
           /\ Kind(f.typ) = "struct" => NoPointerField(f.typ)

\* the leaves of such a struct type read off its declaration: the column
\* name of every exported, untagged-or-tagged field with the index path
\* that leads to it
RECURSIVE declaredLeaves(_, _, _)
declaredLeaves(t, path, prefix) ==
    UNION {LET f   == StructFields(t)[i]
               p   == Append(path, i - 1)
               nm  == IF f.db = "" THEN snakeCaseFieldFunc(f.name) ELSE f.db
               key == IF f.anonymous THEN prefix
                      ELSE IF prefix = "" THEN nm ELSE prefix \o "." \o nm
           IN IF ~f.exported \/ f.db = "-" THEN {}
              ELSE IF Kind(f.typ) = "struct" /\ hasExportedField(f.typ)
              THEN declaredLeaves(f.typ, p, key)
              ELSE {[name |-> key, path |-> p]} : i \in 1..Len(StructFields(t))}

\* the record built directly from the values of the row's columns
directRecord(t, columns, r) ==
    [p \in fieldPaths(t, <<>>) |->
        IF \E l \in declaredLeaves(t, <<>>, "") : l.path = p
        THEN LET l == CHOOSE l \in declaredLeaves(t, <<>>, "") : l.path = p
             IN cellOf(r, firstColumn(columns, l.name))
        ELSE 0]

\* C12: for a struct type without pointer fields and a query whose columns
\* are exactly its leaf names in any order, StructMapper[T] (no options, no
\* mods) materializes the record built directly from the row's values, and
\* StructMapper[*T] a non-nil pointer to it.
C12_StructRoundTrip ==
    (/\ mapper.comp = "Mod"
     /\ NB = 1
     /\ mapper.binders[1].kind = "struct"
     /\ NoPointerField(structOf(mapper.binders[1].typ))
     /\ Len(vrow.columns) = Cardinality(declaredLeaves(structOf(mapper.binders[1].typ), <<>>, ""))
     /\ Range(vrow.columns) =
            {l.name : l \in declaredLeaves(structOf(mapper.binders[1].typ), <<>>, "")}
     /\ pc = "ret"
     /\ Len(log) = 3)
    => /\ ret[1].err = NoError
       /\ ~ret[1].val.nil
       /\ ret[1].val.shared = IsPointerType(mapper.binders[1].typ)
       /\ ret[1].val.f = directRecord(structOf(mapper.binders[1].typ), vrow.columns, row)

validates == SelectSeq(modlog, LAMBDA e : e.op = "validate")

\* the names the base mapper scheduled for this row, in order
scheduledBy1 ==
    LET l == SelectSeq(modlog, LAMBDA e : e.op = "schedule" /\ e.who = 1)
    IN [i \in 1..Len(l) |-> l[i].seen]

\* the struct made of the scratch values: each field holds the value of
\* the last scratch entry bound to it, any other field is zero
builtFrom(b, vals) ==
    [p \in fieldPaths(structOf(b.typ), <<>>) |->
        IF \E i \in 1..Len(b.fields) : b.fields[i] = p
        THEN vals[<<(CHOOSE i \in 1..Len(b.fields) :
                        /\ b.fields[i] = p
                        /\ \A j \in (i + 1)..Len(b.fields) : b.fields[j] # p) - 1>>]
        ELSE 0]

IsPrefix(p, q) == Len(p) <= Len(q) /\ SubSeq(q, 1, Len(p)) = p

\* C14: in a finished descriptor every entry of a leaf's init chain is a
\* prefix of the leaf's position: a pointer field on the way to the leaf,
\* or the leaf itself.
C14_InitChainOnPath ==
    tpc = "done" =>
        \A k \in 1..Len(mappingContent(tres)) :
            \A e \in 1..Len(mappingContent(tres)[k].init) :
                IsPrefix(mappingContent(tres)[k].init[e],
                         mappingContent(tres)[k].position)

\* the names of the leaves of a mapping
leafNamesOf(m) == {m[k].name : k \in 1..Len(m)}

\* column i of the call is reconciled: without a prefix its name is a
\* leaf name, with one it starts with the prefix and the rest is a leaf name
reconciled(i) ==
    IF mprefix = "" THEN mcols[i] \in leafNamesOf(mret)
    ELSE \E rest \in leafNamesOf(mret) : mcols[i] = mprefix \o rest

\* the column behind the j-th filtered entry
columnOf(j) ==
    CHOOSE i \in 1..Len(mcols) :
        /\ reconciled(i)
        /\ Cardinality({h \in 1..i : reconciled(h)}) = j

\* C15: filterColumns emits, in column order, one entry per reconciled
\* column and none for any other; the entry has the position, init chain
\* and pointer flag of the leaf and the full name of the column; nothing
\* is an error.
C15_FilterColumns ==
    mpc \in {"called", "bound", "returned"} =>
        /\ Len(mfiltered) = Cardinality({i \in 1..Len(mcols) : reconciled(i)})
        /\ \A j \in 1..Len(mfiltered) :
            LET i == columnOf(j)
            IN /\ mfiltered[j].name = mcols[i]
               /\ \E k \in 1..Len(mret) :
                    /\ mprefix \o mret[k].name = mcols[i]
                    /\ \A h \in 1..(k - 1) : mret[h].name # mret[k].name
                    /\ mfiltered[j].position = mret[k].position
                    /\ mfiltered[j].init = mret[k].init
                    /\ mfiltered[j].isPointer = mret[k].isPointer

\* StructMapper[UserWithTimestamps] with the prefix p- called with the
\* columns id, p-blog.id: only the second is reconciled, under its full name
C15_Witness ==
    /\ mpc = "called"
    /\ mtyp = "UserWithTimestamps"
    /\ mprefix = "p-"
    /\ mcols = <<"id", "p-blog.id">>
    /\ Len(mfiltered) = 1
    /\ mfiltered[1].name = "p-blog.id"
    /\ mfiltered[1].position = <<2, 0>>

\* C16: what the cache holds for a type, and what getMapping returns for
\* it, are the leaves (names, positions, init chains, pointer flags) its
\* first getMapping returned, whatever calls, reconciliations, before and
\* after functions have run since.
C16_CachedDescriptorUnchanged ==
    /\ \A typ \in DOMAIN mfirst :
            /\ cacheKey(typ) \in DOMAIN cache
            /\ cache[cacheKey(typ)] = mfirst[typ].m
    /\ mpc # "idle" => mret = mfirst[mtyp].m

\* User was mapped with the prefix p- and the column p-id, which was
\* reconciled under that name, and is mapped again: the cached leaf is
\* still named id
C16_Witness ==
    /\ mpc = "returned"
    /\ mtyp = "User"
    /\ mfirst["User"].again
    /\ "UserWithTimestamps" \in DOMAIN mfirst
    /\ mprefix = "p-"
    /\ mcols = <<"p-id", "p-x">>
    /\ Len(mfiltered) = 1
    /\ mfiltered[1].name = "p-id"
    /\ mrow.sched = <<[name |-> "p-id", pos |-> <<0>>]>>
    /\ cache["User"][1].name = "id"

\* the name of a field under a source: its tag, or its mapped identifier
fieldName(s, f) ==
    IF TagGet(f, s.structTagKey) = "" THEN snakeCaseFieldFunc(f.name)
    ELSE TagGet(f, s.structTagKey)

\* the fields passed on the way from struct type t along the index path pos
RECURSIVE fieldsAlong(_, _)
fieldsAlong(t, pos) ==
    IF pos = <<>> THEN <<>>
    ELSE LET f == StructFields(t)[pos[1] + 1]
         IN <<f>> \o fieldsAlong(structOf(f.typ), Tail(pos))

RECURSIVE joined(_, _)
joined(segs, sep) ==
    IF segs = <<>> THEN ""
    ELSE IF Len(segs) = 1 THEN segs[1]
    ELSE segs[1] \o sep \o joined(Tail(segs), sep)

\* the column name the fields of a path spell
pathName(s, fs) ==
    joined([i \in 1..Len(SelectSeq(fs, LAMBDA f : ~f.anonymous)) |->
                fieldName(s, SelectSeq(fs, LAMBDA f : ~f.anonymous)[i])],
           s.columnSeparator)

\* a struct type that contains itself, directly or through other types
RECURSIVE reachesFrom(_, _)
reachesFrom(t, seen) ==
    UNION {LET u == structOf(StructFields(t)[i].typ)
           IN IF Kind(u) # "struct" \/ u \in seen THEN {u} \cap StructTypes
              ELSE {u} \cup reachesFrom(u, seen \cup {u}) :
           i \in 1..Len(StructFields(t))}

Acyclic(t) == \A u \in {t} \cup reachesFrom(t, {t}) : u \notin reachesFrom(u, {u})

\* the leaf names of an acyclic struct type read off its declaration, in
\* declaration order, depth first
RECURSIVE declaredNames(_, _, _, _)
declaredNames(s, t, fs, i) ==
    IF ImplementsScannable(t) THEN <<pathName(s, fs)>>
    ELSE IF ~\E h \in 1..Len(StructFields(t)) :
                /\ StructFields(t)[h].exported
                /\ TagGet(StructFields(t)[h], s.structTagKey) # "-"
    THEN <<pathName(s, fs)>>
    ELSE IF i > Len(StructFields(t)) THEN <<>>
    ELSE LET f == StructFields(t)[i]
         IN (IF ~f.exported \/ TagGet(f, s.structTagKey) = "-" THEN <<>>
             ELSE IF Kind(structOf(f.typ)) = "struct"
             THEN declaredNames(s, structOf(f.typ), Append(fs, f), 1)
             ELSE <<pathName(s, Append(fs, f))>>)
            \o (IF i = Len(StructFields(t)) THEN <<>>
                ELSE declaredNames(s, t, fs, i + 1))

\* C17: the name of a leaf is the names of the non-anonymous fields on its
\* path joined by the source's separator, a field's name being its tag
\* under the source's key or else its mapped identifier; no field on the
\* path is unexported or tagged "-"; and a type without cycles has exactly
\* the leaves its declaration spells, in order.
C17_LeafNames ==
    tpc = "done" =>
        /\ \A k \in 1..Len(mappingContent(tres)) :
            LET leaf == mappingContent(tres)[k]
                fs   == fieldsAlong(structOf(ttyp), leaf.position)
            IN Len(leaf.position) <= 3 =>
                /\ leaf.name = pathName(src, fs)
                /\ \A i \in 1..Len(fs) :
                        fs[i].exported /\ TagGet(fs[i], src.structTagKey) # "-"
        /\ Acyclic(structOf(ttyp)) =>
                [k \in 1..Len(mappingContent(tres)) |-> mappingContent(tres)[k].name]
                    = declaredNames(src, structOf(ttyp), <<>>, 1)

\* Blog under a source with the separator ",": the leaf of field User's
\* embedded User.ID is user,id
C17_Witness ==
    /\ tpc = "done"
    /\ ttyp = "Blog"
    /\ src.columnSeparator = ","
    /\ Len(mappingContent(tres)) >= 2
    /\ mappingContent(tres)[2].name = "user,id"
    /\ mappingContent(tres)[2].position = <<1, 0, 0>>

\* the mapping error of SingleColumnMapper called with n columns
wrongColumnCount(e, n) ==
    /\ e.kind = "MappingError"
    /\ e.meta = <<"wrong column count", "1", ToString(n)>>

\* C18: SingleColumnMapper called with n # 1 columns returns a before and
\* an after function that fail with the same mapping error, metadata
\* ["wrong column count", "1", n]; before schedules nothing and after
\* returns the zero value.  Called with one column, before schedules that
\* column and after returns the scanned value.
C18_SingleColumnMapper ==
    (/\ driver = "RunMapperTest"
     /\ mapper.binders[1] = SingleColumnMapper(vrow.columns))
    => IF Len(vrow.columns) # 1
       THEN /\ \A i \in 1..Len(modlog) : modlog[i].op # "schedule"
            /\ \A i \in 1..Len(vrow.columns) : vrow.scanDestinations[i] = zeroValue
            /\ Len(log) >= 1 => wrongColumnCount(log[1].err, Len(vrow.columns))
            /\ pc = "done" =>
                    /\ ret[1].err = log[1].err
                    /\ ret[1].val = [nil |-> FALSE, shared |-> FALSE, f |-> (<<0>> :> 0)]
       ELSE /\ Len(log) >= 1 =>
                    /\ log[1].err = NoError
                    /\ Len(modlog) >= 1
                    /\ modlog[1].op = "schedule"
                    /\ modlog[1].seen = vrow.columns[1]
            /\ pc = "done" =>
                    ret[1] = [val |-> [nil |-> FALSE, shared |-> FALSE,
                                       f |-> (<<0>> :> cellOf(row, 1))],
                              err |-> NoError]

\* SingleColumnMapper called with three columns: before and after have
\* both failed with ["wrong column count", "1", "3"]
C18_Witness ==
    /\ driver = "RunMapperTest"
    /\ pc = "done"
    /\ vrow.columns = <<"id", "extra", "more">>
    /\ mapper.binders[1].kind = "error"
    /\ log[1].err.meta = <<"wrong column count", "1", "3">>
    /\ ret[1].err = log[1].err
    /\ ret[1].val.f[<<0>>] = 0

\* the value of column id the test's row delivers, 0 without such a column
scannedID ==
    IF firstColumn(vrow.columns, "id") = 0 THEN 0
    ELSE cellOf(row, firstColumn(vrow.columns, "id"))

C20_RowValueWithRowsErr ==
    (driver = "OneFromRows" /\ pc = "done" /\ row = 1)
        => out[1].err = rows.err

\* C20: OneFromRows calls rows.Next() once.  When it returns false the
\* result is the zero T with rows.Err() if that is non-nil and with
\* sql.ErrNoRows otherwise.  When it returns true one row is processed: a
\* row that fails gives what scanOneRow returned, value and error, and
\* rows.Err() is not asked; a row that succeeds gives its value together
\* with rows.Err().
C20_OneFromRows ==
    /\ [](driver = "OneFromRows" =>
            /\ rows.nexts <= 1
            /\ row <= rows.nexts
            /\ pc = "loop" => rows.nexts = 0
            /\ pc = "done" =>
                /\ rows.nexts = 1
                /\ Len(out) = 1
                /\ row = 0 =>
                    /\ out[1].val = Zero(mapper)
                    /\ rows.err # NoError => out[1].err = rows.err
                    /\ rows.err = NoError => out[1].err = ErrNoRows)
    /\ [][(driver = "OneFromRows" /\ pc = "ret" /\ pc' = "done") =>
            /\ row = 1
            /\ ret[1].err # NoError => out' = <<ret[1]>> /\ rows' = rows
            /\ ret[1].err = NoError =>
                    out' = <<[val |-> ret[1].val, err |-> rows'.err]>>]_vars

\* OneFromRows found no row and rows.Err() was nil: sql.ErrNoRows
C20_Witness ==
    /\ driver = "OneFromRows"
    /\ pc = "done"
    /\ row = 0
    /\ rows = [err |-> NoError, nexts |-> 1]
    /\ out = <<[val |-> Zero(mapper), err |-> ErrNoRows]>>

-----------------------------------------------------------------------------
(* The two functions Mod returns, called by a caller of its own choosing:  *)
(* the before function any number of times, the after function once for    *)
(* every base link a before call returned, in any order.  Here one action  *)
(* is one call of a function of Mod, the calls it makes to the functions   *)
(* of m and of the mods included.                                          *)

MaxCalls == 2

CallColumnLists == {<<"id", "name">>, <<"id">>}

\* the ScheduleScanx calls the before function of binder b makes in call k
RECURSIVE scheduleOf(_, _, _, _)
scheduleOf(r, k, b, n) ==
    IF n = 0 THEN r
    ELSE ScheduleScanx(scheduleOf(r, k, b, n - 1),
                       mapper.binders[b].sched[n].name,
                       Addr(k, b, mapper.binders[b].sched[n].pos))

\* the ScheduleScanx calls of the before functions of binders 1..n in call k
RECURSIVE scheduleUpTo(_, _, _)
scheduleUpTo(r, k, n) ==
    IF n = 0 THEN r
    ELSE scheduleOf(scheduleUpTo(r, k, n - 1), k, n, Len(mapper.binders[n].sched))

\* the before calls Mod's before function makes in call k when binder
\* failed is the one that fails (0: none fails)
beforeCalls(k, failed) ==
    [b \in 1..(IF failed = 0 THEN NB ELSE failed) |->
        bcall("before", b, IF b = failed THEN nilLink ELSE Link(k, b), k,
              IF b = failed THEN ErrBefore(mapper.binders[b]) ELSE NoError)]

\* links[i], err = b(v) for the mods that were reached; a failing mod's
\* before returns a nil link with its error
linksAfterBefore(ls, k, failed) ==
    [i \in 1..Len(ls) |->
        IF failed = 0 \/ i + 1 < failed THEN Link(k, i + 1)
        ELSE IF i + 1 = failed THEN nilLink
        ELSE ls[i]]

\* a(links[i], t): the link Mod's after function hands to AfterMod i when
\* it materializes base link v
linkGiven(ls, v, i) == ls[i]

\* the after calls Mod's after function makes for base link v
afterCalls(v, failed) ==
    [b \in 1..(IF failed = 0 THEN NB ELSE failed) |->
        bcall("after", b, IF b = 1 THEN v ELSE linkGiven(links, v, b - 1), v,
              IF b = failed THEN ErrAfter(mapper.binders[b]) ELSE NoError)]

\* t after the AfterMods 1..n have run on it
RECURSIVE modsApplied(_, _)
modsApplied(retrieved, n) ==
    IF n = 0 THEN retrieved ELSE modMutate(n, modsApplied(retrieved, n - 1))

\* the binders whose before / after function can fail
canFailBefore == {b \in 1..NB : ErrBefore(mapper.binders[b]) \in beforeErrors(mapper.binders[b])}
canFailAfter  == {b \in 1..NB : ErrAfter(mapper.binders[b]) \in afterErrors(mapper.binders[b])}

InitCalls ==
    /\ InitSource /\ InitCacheIdle /\ InitTravIdle /\ InitMapIdle
    /\ driver = "Caller"
    /\ \E c \in CallColumnLists :
            /\ vrow = wrapRows(c, TRUE)
            /\ mapper \in {Mod(m, mods) : m \in {ColumnMapper("id"), CustomMapper,
                                                 StructMapper("*User", c)},
                                          mods \in ModLists}
    /\ rows = [err |-> NoError, nexts |-> 0]
    /\ row = 0
    /\ pc = "calls"
    /\ bi = 0
    /\ bj = 0
    /\ cells = [b \in 1..Len(mapper.binders) |-> zeroCells(mapper.binders[b])]
    /\ alinks = <<>>
    /\ links = [i \in 1..(Len(mapper.binders) - 1) |-> nilLink]
    /\ val = <<>>
    /\ tval = Zero(mapper)
    /\ ret = <<>>
    /\ log = <<>>
    /\ modlog = <<>>
    /\ results = <<>>
    /\ out = <<>>

\* Mod's before function, call number row + 1: a, err := before(v), then
\* links[i], err = b(v) for every mod until one fails
ModBeforeCall ==
    /\ driver = "Caller"
    /\ row < MaxCalls
    /\ row' = row + 1
    /\ \E failed \in {0} \cup canFailBefore :
        /\ vrow' = scheduleUpTo(vrow, row', IF failed = 0 THEN NB ELSE failed)
        /\ links' = linksAfterBefore(links, row', failed)
        /\ modlog' = modlog \o beforeCalls(row', failed)
        /\ val' = Append(val, IF failed = 0 THEN Link(row', 1) ELSE nilLink)
    /\ UNCHANGED <<driver, mapper, rows, pc, bi, bj, cells, alinks, tval, ret, log,
                   results, out, srcVars, cacheVars, travVars, mapVars>>

\* Mod's after function on the base link of call k, which has not been
\* materialized yet: t, err := after(v), then a(links[i], t) for every mod
\* until one fails
ModAfterCall(k) ==
    /\ driver = "Caller"
    /\ k \in 1..row
    /\ val[k] # nilLink
    /\ \A i \in 1..Len(alinks) : alinks[i] # val[k]
    /\ alinks' = Append(alinks, val[k])
    /\ bi' = bi + 1
    /\ \E failed \in {0} \cup canFailAfter :
        LET retrieved == afterOf(mapper.binders[1], cells[1])
        IN /\ modlog' = modlog \o afterCalls(val[k], failed)
           /\ ret' = Append(ret,
                        [val |-> IF failed = 1 THEN Zero(mapper)
                                 ELSE modsApplied(retrieved,
                                        IF failed = 0 THEN NB - 1 ELSE failed - 1),
                         err |-> IF failed = 0 THEN NoError
                                 ELSE ErrAfter(mapper.binders[failed])])
    /\ UNCHANGED <<driver, mapper, vrow, rows, row, pc, bj, cells, links, val, tval,
                   log, results, out, srcVars, cacheVars, travVars, mapVars>>

NextCalls ==
    \/ ModBeforeCall
    \/ \E k \in 1..MaxCalls : ModAfterCall(k)

SpecCalls == InitCalls /\ [][NextCalls]_vars

\* C21: a mapper composed with Mod keeps no state between calls: whatever
\* the order of the calls to its before and after functions, the after
\* function of each mod receives the link that this mod's before function
\* returned in the before call that returned the base link now given to
\* Mod's after function.
C21_ModLinksOfSameCall ==
    \A n \in 1..Len(modlog) :
        (modlog[n].op = "after" /\ modlog[n].who > 1) =>
            \E p \in 1..(n - 1) :
                /\ modlog[p].op = "before"
                /\ modlog[p].who = modlog[n].who
                /\ modlog[p].seen = modlog[n].seen.r
                /\ modlog[p].link = modlog[n].link

\* the row after the ScheduleScanx calls 1..n of binder b, made as binder
\* 1 of the call for row k
RECURSIVE scheduledWith(_, _, _, _)
scheduledWith(r, k, b, n) ==
    IF n = 0 THEN r
    ELSE ScheduleScanx(scheduledWith(r, k, b, n - 1), b.sched[n].name,
                       Addr(k, 1, b.sched[n].pos))

\* what the struct mapper without options materializes for row k of a
\* query with columns c: its before, the scan, its after
noOptionsValue(typ, c, k) ==
    LET b == StructMapper(typ, c)
        r == scheduledWith(wrapRows(c, TRUE), k, b, Len(b.sched))
    IN afterOf(b, Scan(<<zeroCells(b)>>, r.scanDestinations, k)[1])

\* C22: a struct mapper whose only option is a row validator that accepts
\* the row materializes, for every destination type and every row, the
\* value the struct mapper without options materializes.
C22_ValidatorSameAsNoOptions ==
    (/\ driver = "RunMapperTest" /\ pc = "done"
     /\ B.kind = "options" /\ B.validator = "acceptAll") =>
        /\ ret[1].err = NoError
        /\ ret[1].val = noOptionsValue(B.typ, vrow.columns, row)

\* the names the bind phase of the current row scheduled that are not
\* query columns, in the order of the calls
RECURSIVE unknownScheduled(_)
unknownScheduled(n) ==
    IF n = 0 THEN <<>>
    ELSE IF modlog[n].op = "schedule" /\ firstColumn(vrow.columns, modlog[n].seen) = 0
    THEN Append(unknownScheduled(n - 1), modlog[n].seen)
    ELSE unknownScheduled(n - 1)

\* C23: when the bind phase of a row scheduled a name that is not a query
\* column, scanCurrentRow fails the row without calling Scan, with a
\* MappingError whose metadata is the list of those names; this holds
\* whether or not a query column was left unbound and whatever the
\* allow-unknown-columns flag is.
C23_UnknownNamesOfRow ==
    [][(/\ pc = "scan" /\ pc' # "scan"
        /\ unknownScheduled(Len(modlog)) # <<>>)
       => /\ pc' = "ret"
          /\ log' = log
          /\ ret'[1].val = Zero(mapper)
          /\ ret'[1].err.kind = "MappingError"
          /\ ret'[1].err.meta = unknownScheduled(Len(modlog))]_vars

\* the error scanCurrentRow returns for names that are not query columns
isUnknownColumnsError(e) ==
    e.kind = "MappingError" /\ e.cause = "unknown columns to map to"

\* C24: an unknown-column scheduling error belongs to the row whose bind
\* phase caused it: a row whose bind phase scheduled only query columns
\* does not fail with it, whatever happened to the rows before, and the
\* metadata of such an error is the list of the names that the bind phase
\* of the current row scheduled.
C24_UnknownErrorConfinedToRow ==
    (pc = "ret" /\ isUnknownColumnsError(ret[1].err)) =>
        /\ unknownScheduled(Len(modlog)) # <<>>
        /\ ret[1].err.meta = unknownScheduled(Len(modlog))

\* C28: in a finished descriptor two distinct leaves have distinct access
\* paths, and the access path stored for a leaf is the sequence of field
\* indices along which its name was built, at every depth of nesting.
C28_PositionsDistinctAndOnPath ==
    tpc = "done" =>
        LET m == mappingContent(tres)
        IN /\ \A k, l \in 1..Len(m) : k # l => m[k].position # m[l].position
           /\ \A k \in 1..Len(m) :
                m[k].name = pathName(src, fieldsAlong(structOf(ttyp), m[k].position))

\* the row validator was asked about the current row and rejected it
rejected ==
    /\ validates # <<>>
    /\ ~validator(mapper.binders[validates[1].who].validator,
                  validates[1].seen.cols, validates[1].seen.vals)

\* C29: AllFromRows collects one element for every row for which Next()
\* returned true, in the order of the rows, the zero value of a row the
\* validator rejected included; a row that fails ends the call with a nil
\* slice and the row's error, no further Next(); when Next() returns false
\* the rows collected are returned together with rows.Err().
C29_AllFromRows ==
    /\ [](driver = "AllFromRows" =>
            /\ pc = "loop" => Len(results) = row /\ rows.nexts = row
            /\ pc \in {"before", "scan", "after", "ret"} =>
                    Len(results) = row - 1 /\ rows.nexts = row
            /\ pc = "done" =>
                    \/ /\ rows.nexts = row + 1
                       /\ Len(results) = row
                       /\ out = <<[val |-> results, err |-> rows.err]>>
                    \/ /\ rows.nexts = row
                       /\ Len(results) = row - 1
                       /\ out[1].val = <<>>
                       /\ out[1].err # NoError)
    /\ [][(driver = "AllFromRows" /\ pc = "ret") =>
            IF ret[1].err # NoError
            THEN /\ pc' = "done"
                 /\ out' = <<[val |-> <<>>, err |-> ret[1].err]>>
                 /\ results' = results
            ELSE /\ pc' = "loop"
                 /\ results' = Append(results, ret[1].val)
                 /\ (mapper.comp = "Mod" /\ rejected) =>
                        results'[row] = Zero(mapper)]_vars

\* StructMapper[User] with the validator, two rows: the first accepted,
\* the second rejected, and both in the result, with the rows' error
C29_Witness ==
    /\ driver = "AllFromRows"
    /\ pc = "done"
    /\ mapper.comp = "Mod" /\ NB = 1
    /\ mapper.binders[1].kind = "options"
    /\ mapper.binders[1].typ = "User"
    /\ vrow.columns = <<"id", "name">>
    /\ rows = [err |-> ErrRows, nexts |-> 3]
    /\ out = <<[val |-> <<[nil |-> FALSE, shared |-> FALSE,
                          f |-> (<<0>> :> 11 @@ <<1>> :> 12)],
                         [nil |-> FALSE, shared |-> FALSE,
                          f |-> (<<0>> :> 0 @@ <<1>> :> 0)]>>,
                err |-> ErrRows]>>

-----------------------------------------------------------------------------
(* One, All, Each and Cursor from the query on.  driver names the helper   *)
(* that the *FromRows function of the row pipeline belongs to: One calls   *)
(* OneFromRows, All calls AllFromRows, Cursor calls CursorFromRows, Each   *)
(* has the loop in its own iterator.  Here rows has more fields:           *)
(*   opened   exec.QueryContext returned the row source                    *)
(*   closes   the number of rows.Close() calls                             *)
(*   mcalls   the number of calls of the mapper function m                 *)
(*   handed   the row source went to the caller inside a cursor            *)
(*   cols, allow   what rows.Columns() returns, and the context's flag     *)

ErrQuery   == PlainError("exec.QueryContext")
ErrColumns == PlainError("rows.Columns")

nilRow == [columns |-> <<>>, scanDestinations |-> <<>>,
           unknownDestinations |-> <<>>, allowUnknown |-> FALSE]

ExecMods == {<<>>, <<MapperMod(<<"id">>)>>}

ExecMappers(c) == {Mod(m, mods) : m \in Bases(c), mods \in ExecMods}

InitExec ==
    /\ InitSource /\ InitCacheIdle /\ InitTravIdle /\ InitMapIdle
    /\ driver \in Drivers
    /\ \E c \in ColumnLists, allowUnknown \in BOOLEAN :
            /\ rows = [err |-> NoError, nexts |-> 0, opened |-> FALSE, closes |-> 0,
                       mcalls |-> 0, handed |-> FALSE, cols |-> c,
                       allow |-> allowUnknown]
            /\ mapper \in ExecMappers(c)
    /\ vrow = nilRow
    /\ row = 0
    /\ pc = "query"
    /\ bi = 0
    /\ bj = 0
    /\ cells = [b \in 1..Len(mapper.binders) |-> zeroCells(mapper.binders[b])]
    /\ alinks = <<>>
    /\ links = [i \in 1..(Len(mapper.binders) - 1) |-> nilLink]
    /\ val = <<>>
    /\ tval = Zero(mapper)
    /\ ret = <<>>
    /\ log = <<>>
    /\ modlog = <<>>
    /\ results = <<>>
    /\ out = <<>>

\* what a helper returns when it fails before it has a row: the zero T
\* (One), a nil slice (All), a nil cursor (Cursor)
failsWith(err) ==
    <<[val |-> IF driver = "OneFromRows" THEN Zero(mapper) ELSE <<>>, err |-> err]>>

\* rows, err := exec.QueryContext(ctx, query, args...)
QueryContext ==
    /\ pc = "query"
    /\ \E err \in {NoError, ErrQuery} :
        IF err # NoError
        THEN /\ IF driver = "Each"
                THEN pc' = "erriter" /\ ret' = <<[val |-> Zero(mapper), err |-> err]>>
                                     /\ out' = out
                ELSE pc' = "returned" /\ out' = failsWith(err) /\ ret' = ret
             /\ rows' = rows
        ELSE /\ rows' = [rows EXCEPT !.opened = TRUE]
             /\ pc' = "wrap"
             /\ UNCHANGED <<ret, out>>
    /\ UNCHANGED <<driver, mapper, vrow, row, bi, bj, cells, alinks, links, val,
                   tval, log, modlog, results, srcVars, cacheVars, travVars, mapVars>>

\* CursorFromRows when wrapRows failed: return nil, err
cursorFromRowsFails(r) == r

\* a CursorFromRows that reports the error the mapper was built with
cursorFromRowsChecksMapper(r, m) ==
    [r EXCEPT !.mcalls = @ + 1, !.handed = m.binders[1].kind # "error"]

\* CursorFromRows past wrapRows: before, after := m(ctx, v.columnsCopy())
\* and return &cursor[T]{...}, nil
cursorFromRows(r, m) == [r EXCEPT !.mcalls = @ + 1, !.handed = TRUE]

\* v, err := wrapRows(rows, allowUnknown), and when it succeeds
\* before, after := m(ctx, v.columnsCopy()).  On an error One and All
\* return it (their deferred Close follows), Each closes the rows and
\* returns the iterator that yields the error, CursorFromRows returns it.
WrapRows ==
    /\ pc = "wrap"
    /\ \E err \in {NoError, ErrColumns} :
        IF err # NoError
        THEN /\ vrow' = vrow
             /\ CASE driver = "Each" ->
                        /\ rows' = [rows EXCEPT !.closes = @ + 1]
                        /\ ret' = <<[val |-> Zero(mapper), err |-> err]>>
                        /\ pc' = "erriter"
                        /\ out' = out
                  [] driver = "Cursor" ->
                        /\ rows' = cursorFromRowsFails(rows)
                        /\ out' = failsWith(err)
                        /\ pc' = "returned"
                        /\ ret' = ret
                  [] OTHER ->
                        /\ rows' = rows
                        /\ out' = failsWith(err)
                        /\ pc' = "done"
                        /\ ret' = ret
        ELSE /\ vrow' = wrapRows(rows.cols, rows.allow)
             /\ rows' = IF driver = "Cursor" THEN cursorFromRows(rows, mapper)
                        ELSE [rows EXCEPT !.mcalls = @ + 1]
             /\ pc' = "loop"
             /\ UNCHANGED <<ret, out>>
    /\ UNCHANGED <<driver, mapper, row, bi, bj, cells, alinks, links, val,
                   tval, log, modlog, results, srcVars, cacheVars, travVars, mapVars>>

\* the iterator Each returned for a query or Columns() error is called:
\* yield(*new(T), err)
YieldError ==
    /\ pc = "erriter"
    /\ driver = "Each"
    /\ out' = <<ret[1]>>
    /\ ret' = <<>>
    /\ pc' = "returned"
    /\ UNCHANGED <<driver, mapper, vrow, rows, row, bi, bj, cells, alinks, links,
                   val, tval, log, modlog, results,
                   srcVars, cacheVars, travVars, mapVars>>

\* defer rows.Close() of One, of All and of Each's iterator: the helper
\* returns
DeferredClose ==
    /\ pc = "done"
    /\ driver # "Cursor"
    /\ rows' = [rows EXCEPT !.closes = @ + 1]
    /\ pc' = "returned"
    /\ UNCHANGED <<driver, mapper, vrow, row, bi, bj, cells, alinks, links, val,
                   tval, ret, log, modlog, results, out,
                   srcVars, cacheVars, travVars, mapVars>>

\* the caller of Cursor is done with the cursor: c.Close()
CursorClose ==
    /\ pc = "done"
    /\ driver = "Cursor"
    /\ rows' = [rows EXCEPT !.closes = @ + 1]
    /\ pc' = "returned"
    /\ UNCHANGED <<driver, mapper, vrow, row, bi, bj, cells, alinks, links, val,
                   tval, ret, log, modlog, results, out,
                   srcVars, cacheVars, travVars, mapVars>>

NextExec ==
    \/ QueryContext
    \/ WrapRows
    \/ YieldError
    \/ NextRow
    \/ NoMoreRows
    \/ ScheduleScan
    \/ BeforeReturn
    \/ scanCurrentRow
    \/ AfterReturn
    \/ OneReturns
    \/ AllCollects
    \/ EachYields
    \/ CursorGets
    \/ DeferredClose
    \/ CursorClose

SpecExec == InitExec /\ [][NextExec]_vars

\* C25: Each does not end silently when the row source fails: when Next()
\* returned false and rows.Err() is not nil, the last pair the consumer
\* was yielded is the zero value with that error; and a query error or a
\* Columns() error is yielded once, with the zero value.
C25_EachYieldsRowsErr ==
    (driver = "Each" /\ pc = "returned") =>
        /\ (rows.nexts > row /\ rows.err # NoError) =>
                out = <<[val |-> Zero(mapper), err |-> rows.err]>>
        /\ rows.mcalls = 0 =>
                /\ out = <<[val |-> Zero(mapper),
                            err |-> IF rows.opened THEN ErrColumns ELSE ErrQuery]>>
                /\ rows.nexts = 0

\* C26: a helper that opened a row source and did not hand it to the
\* caller has closed it when it returns.
C26_RowsClosed ==
    (pc = "returned" /\ rows.opened /\ ~rows.handed) => rows.closes >= 1

\* the mapper was built as an ErrorMapper: its error was fixed when the
\* mapper function was called
fixedError == mapper.binders[1].kind = "error"

\* C30: the mapper function is called once per query, before the first
\* Next(); an error fixed in that call is reported when a row is processed
\* and not before: without a row AllFromRows returns an empty result with
\* rows.Err() and OneFromRows sql.ErrNoRows (or the rows' error),
\* CursorFromRows returns a cursor and a nil error, and every row
\* processed, every Get() included, returns the zero value with the error.
C30_MapperCalledOnce ==
    /\ [](/\ rows.mcalls <= 1
          /\ rows.nexts > 0 => rows.mcalls = 1
          /\ pc \in {"query", "wrap"} => rows.mcalls = 0 /\ rows.nexts = 0
          /\ (driver = "Cursor" /\ rows.mcalls = 1) => rows.handed
          /\ (fixedError /\ pc = "ret") =>
                ret[1] = [val |-> Zero(mapper), err |-> mapper.binders[1].err]
          /\ (fixedError /\ pc \in {"done", "returned"} /\ rows.mcalls = 1 /\ row = 0
              /\ driver \in {"OneFromRows", "AllFromRows"}) =>
                out = <<[val |-> IF driver = "OneFromRows" THEN Zero(mapper) ELSE <<>>,
                         err |-> IF driver = "OneFromRows" /\ rows.err = NoError
                                 THEN ErrNoRows ELSE rows.err]>>
          /\ (fixedError /\ out # <<>> /\ out[1].err = mapper.binders[1].err) =>
                row >= 1)
    /\ [][rows'.mcalls # rows.mcalls =>
            /\ rows.nexts = 0 /\ rows'.nexts = 0
            /\ pc = "wrap" /\ pc' = "loop"]_vars

\* a cursor over SingleColumnMapper on a two-column query: the cursor was
\* returned, and the second Get() reports the wrong column count
C30_Witness ==
    /\ driver = "Cursor"
    /\ fixedError
    /\ rows.handed
    /\ rows.mcalls = 1
    /\ row = 2
    /\ pc = "ret"
    /\ ret[1].err.kind = "MappingError"
    /\ ret[1].err.meta = <<"wrong column count", "1", "2">>

-----------------------------------------------------------------------------
(* AllFromRows with the objects of every row kept: cells is the heap, one  *)
(* entry per object a before function allocated, named by the before call *)
(* that allocated it; a value that is a pointer or a slice refers to its   *)
(* object (obj), any other value is a copy (f).  One action is one turn of *)
(* the loop: rows.Next(), before, scanCurrentRow, after, append.           *)

\* MapMapper: a *T of its own per column; after copies them into a new map
MapMapper(c) ==
    binder("map", "map[string]int", {<<i - 1>> : i \in 1..Len(c)},
           [i \in 1..Len(c) |-> [name |-> c[i], pos |-> <<i - 1>>]], NoError)

KeptMappers(c) ==
    {Mod(m, <<>>) : m \in {StructMapper("User", c), StructMapper("*User", c),
                           SingleColumnMapper(c), ColumnMapper("id"),
                           SliceMapper(c), MapMapper(c)}}

\* a before function that allocated its destination once and uses it for
\* every row
allocatedOnce(b, k) == 1

\* the before call in which the object that binder b binds in call k was
\* allocated: reflect.New, var t T and make are statements of the before
\* function itself
allocatedIn(b, k) == k

\* the ScheduleScanx calls 1..n of binder b with object o as destination
RECURSIVE scheduleInto(_, _, _, _)
scheduleInto(r, o, b, n) ==
    IF n = 0 THEN r
    ELSE ScheduleScanx(scheduleInto(r, o, b, n - 1), b.sched[n].name,
                       Addr(o.r, o.b, b.sched[n].pos))

\* rows.Scan(targets...) of row k as it changes object o of the heap
scanInto(object, o, targets, k) ==
    [p \in DOMAIN object |->
        LET hits == {i \in 1..Len(targets) : targets[i] = Addr(o.r, o.b, p)}
        IN IF hits = {} THEN object[p]
           ELSE cellOf(k, CHOOSE i \in hits : \A j \in hits : j <= i)]

\* the object a value refers to, or the copy it is
contentOf(value) ==
    IF value.nil THEN <<>>
    ELSE IF value.shared THEN cells[value.obj] ELSE value.f

InitKept ==
    /\ InitSource /\ InitCacheIdle /\ InitTravIdle /\ InitMapIdle
    /\ driver = "AllFromRows"
    /\ \E c \in ColumnLists, allowUnknown \in BOOLEAN :
            /\ vrow = wrapRows(c, allowUnknown)
            /\ mapper \in KeptMappers(c)
    /\ rows = [err |-> NoError, nexts |-> 0]
    /\ row = 0
    /\ pc = "loop"
    /\ bi = 0
    /\ bj = 0
    /\ cells = <<>>
    /\ alinks = <<>>
    /\ links = <<>>
    /\ val = <<>>
    /\ tval = Zero(mapper)
    /\ ret = <<>>
    /\ log = <<>>
    /\ modlog = <<>>
    /\ results = <<>>
    /\ out = <<>>

\* for rows.Next() { one, err := scanOneRow(v, before, after); ... }
ScanOneRowKept ==
    /\ pc = "loop"
    /\ driver = "AllFromRows"
    /\ row < MaxRows
    /\ row' = row + 1
    /\ rows' = [rows EXCEPT !.nexts = @ + 1]
    /\ LET b  == mapper.binders[1]
           o  == Link(allocatedIn(b, row'), 1)
           \* before: the object, and the scans scheduled into it
           fresh == IF o \in DOMAIN cells THEN cells[o] ELSE zeroCells(b)
           r1 == scheduleInto(vrow, o, b, Len(b.sched))
           ct == createTargets(r1)
           failed == IF b.err # NoError THEN b.err
                     ELSE IF Len(r1.unknownDestinations) > 0
                     THEN createError(PlainError("unknown columns to map to"),
                                      r1.unknownDestinations)
                     ELSE ct.err
       IN IF failed # NoError
          THEN /\ vrow' = IF b.err # NoError THEN vrow ELSE r1
               /\ cells' = IF b.err # NoError THEN cells
                           ELSE [x \in DOMAIN cells \cup {o} |->
                                    IF x = o THEN fresh ELSE cells[x]]
               /\ out' = <<[val |-> <<>>, err |-> failed]>>
               /\ pc' = "done"
               /\ UNCHANGED <<results, ret, log>>
          ELSE \E err \in {NoError, ErrScan} :
                IF err # NoError
                THEN /\ vrow' = r1
                     /\ cells' = [x \in DOMAIN cells \cup {o} |->
                                    IF x = o THEN fresh ELSE cells[x]]
                     /\ out' = <<[val |-> <<>>, err |-> err]>>
                     /\ pc' = "done"
                     /\ UNCHANGED <<results, ret, log>>
                ELSE LET scanned == scanInto(fresh, o, ct.targets, row')
                         one == afterOf(b, scanned)
                     IN /\ vrow' = resetDestinations(r1)
                        /\ cells' = [x \in DOMAIN cells \cup {o} |->
                                        IF x = o THEN scanned ELSE cells[x]]
                        /\ results' = collect(results,
                                        [nil |-> one.nil, shared |-> one.shared,
                                         f |-> one.f, obj |-> o])
                        /\ ret' = Append(ret, one.f)
                        /\ log' = Append(log, ct.targets)
                        /\ pc' = "loop"
                        /\ out' = out
    /\ UNCHANGED <<driver, mapper, bi, bj, alinks, links, val, tval, modlog,
                   srcVars, cacheVars, travVars, mapVars>>

NextKept ==
    \/ ScanOneRowKept
    \/ NoMoreRows

SpecKept == InitKept /\ [][NextKept]_vars

\* the destinations among the targets of a Scan call that are addresses of
\* cells (a placeholder belongs to the call alone)
addresses(targets) == {targets[i] : i \in {j \in 1..Len(targets) : targets[j].kind = "addr"}}

\* C27: values materialized for different rows share no scan destination:
\* no address is a target of the Scan calls of two rows, the value
\* returned for a row holds what it held when it was returned whatever was
\* bound, scanned and materialized since, and the pointers (and slices)
\* returned for different rows refer to different objects.
C27_FreshDestinations ==
    /\ \A j, k \in 1..Len(log) :
            j # k => addresses(log[j]) \cap addresses(log[k]) = {}
    /\ \A k \in 1..Len(results) : contentOf(results[k]) = ret[k]
    /\ \A j, k \in 1..Len(results) :
            (j # k /\ results[j].shared) => results[j].obj # results[k].obj

\* StructMapper[*User] over two rows: two pointers, the first still holds
\* the values of row 1 after row 2 was scanned
C27_Witness ==
    /\ driver = "AllFromRows"
    /\ mapper.binders[1].kind = "struct"
    /\ mapper.binders[1].typ = "*User"
    /\ vrow.columns = <<"id", "name">>
    /\ Len(results) = 2
    /\ results[1].shared /\ results[2].shared
    /\ contentOf(results[1]) = (<<0>> :> 11 @@ <<1>> :> 12)
    /\ contentOf(results[2]) = (<<0>> :> 21 @@ <<1>> :> 22)

=============================================================================
